---- MODULE Spec2Model ----
(***************************************************************************)
(* A model of the Machine handle of the NixOS test driver                  *)
(* (nixos/lib/test-driver/lib/machine.py): the boot / connect / shutdown   *)
(* state machine, the monitor dialogue, the shell channel with its         *)
(* sentinel frame, the retry scheduler and wait_for_unit.                  *)
(*                                                                         *)
(* Byte streams are sequences of one-character strings.  The code of an    *)
(* operation is an operator from the handle's state to the set of outcomes *)
(* it can end in; what the guest answers on a stream, how recv cuts it     *)
(* into chunks and whether the guest obeys is chosen inside the operator.  *)
(* A call of the test script is made in one step and ends in a later one:  *)
(* the calls block (recv, process.wait, time.sleep), and while a call is   *)
(* under way the guest goes on printing, the reader threads go on putting  *)
(* lines into last_lines and the emulator can exit.  start has a step of   *)
(* its own between the spawn and the end of its priming read.              *)
(***************************************************************************)
EXTENDS Integers, Sequences, FiniteSets, TLC

VARIABLES
    booted,      \* self.booted
    connected,   \* self.connected
    pid,         \* self.pid
    process,     \* self.process (the Popen object: the number of the spawn)
    monitor,     \* self.monitor (the accepted monitor socket)
    shell,       \* self.shell (the accepted shell socket)
    guest,       \* the subprocess itself: "none", "running", "killed" (it
                 \* was sent SIGKILL and has not exited yet) or "dead"
    monitorBuf,  \* bytes written by the guest's monitor and not yet received
    shellBuf,    \* bytes written by the guest's shell and not yet received
    boots,       \* how many subprocesses were spawned so far
    caller,      \* the test script: "ready", in a call ("accepting",
                 \* "starting", "connecting", "calling", "waiting"), or
                 \* how its last call ended
    pending,     \* the call under way
    last,        \* the call the test script has just made
    keep_vm_state, \* self.keep_vm_state
    state_dir,   \* the entries of the directory self.state_dir
    serial,      \* per subprocess: its stdout pipe and its reader thread
    delivered,   \* every line put into self.last_lines, in the order put
    gotten       \* how many of them wait_for_console_text has taken out

vars == <<booted, connected, pid, process, monitor, shell, guest,
          monitorBuf, shellBuf, boots, caller, pending, last, keep_vm_state,
          state_dir, serial, delivered, gotten>>

(***************************************************************************)
(* Bounds of the model.                                                    *)
(***************************************************************************)
MaxBoots == 2      \* subprocesses spawned in one run
MaxCuts == 2       \* cuts recv makes in the bytes of one shell dialogue
MaxMonitorCuts == 1 \* cuts recv makes in the bytes of one monitor dialogue
MaxWire == 16      \* unread bytes on one stream
MaxTimeout == 3    \* the timeout budgets tried for retry
MaxLines == 3      \* lines printed on the serial console in one run
MaxUnread == 3     \* unread bytes on the shell stream of a typed session

\* Python's None; every other value of a field that can hold None is a record.
None == [type |-> "NoneType"]

\* A str value, as a Python value that can be compared with None.
Str(text) == [type |-> "str", text |-> text]

\* An exception, as a Python value.
Exc(name) == [exception |-> name]

(***************************************************************************)
(* Text.                                                                   *)
(***************************************************************************)
Prompt == <<"(", "q", "e", "m", "u", ")", " ">>

Sentinel == <<"|", "!", "=", "E", "O", "F">>

EndsWith(s, suffix) ==
    /\ Len(s) >= Len(suffix)
    /\ SubSeq(s, Len(s) - Len(suffix) + 1, Len(s)) = suffix

StartsWithAt(s, i, word) ==
    /\ i + Len(word) - 1 <= Len(s)
    /\ SubSeq(s, i, i + Len(word) - 1) = word

RECURSIVE Concat(_)
Concat(chunks) ==
    IF chunks = <<>> THEN <<>> ELSE Head(chunks) \o Concat(Tail(chunks))

\* The ways to cut n bytes into at most k + 1 chunks: the increasing
\* sequences of chunk ends, the last one n.
RECURSIVE ChunkEnds(_, _)
ChunkEnds(n, k) ==
    IF n = 0 THEN {<<>>}
    ELSE {<<n>>} \cup
         (IF k = 0 THEN {}
          ELSE UNION {{Append(ends, n) : ends \in ChunkEnds(m, k - 1)}
                      : m \in 1 .. (n - 1)})

ChunkEndsTable ==
    [k \in {MaxCuts, MaxMonitorCuts} |->
        [n \in 0 .. MaxWire |-> ChunkEnds(n, k)]]

\* The ways recv(size) can deliver the bytes of wire in successive calls,
\* with at most cuts cuts: the chunks of wire that end at the positions ends.
Chunkings(wire, size, cuts) ==
    {[i \in 1 .. Len(ends) |->
        SubSeq(wire, (IF i = 1 THEN 0 ELSE ends[i - 1]) + 1, ends[i])] :
        ends \in {e \in ChunkEndsTable[cuts][Len(wire)] :
                    \A i \in 1 .. Len(e) :
                        e[i] - (IF i = 1 THEN 0 ELSE e[i - 1]) <= size}}

(***************************************************************************)
(* The handle as a value, and the outcome of a call.                       *)
(***************************************************************************)
Cur ==
    [booted |-> booted, connected |-> connected, pid |-> pid,
     process |-> process, monitor |-> monitor, shell |-> shell,
     guest |-> guest, monitorBuf |-> monitorBuf, shellBuf |-> shellBuf,
     boots |-> boots, keep_vm_state |-> keep_vm_state,
     state_dir |-> state_dir, serial |-> serial]

\* kind: "returned", "raised" (exc names the exception) or "hung" (the call
\* blocks for ever); val is the value returned; env is what the guest did.
Outcome(h, kind, exc, val, env) ==
    [h |-> h, kind |-> kind, exc |-> exc, val |-> val, env |-> env]

Returned(h, val, env) == Outcome(h, "returned", None, val, env)

Raised(h, exc, env) == Outcome(h, "raised", exc, None, env)

Hung(h, env) == Outcome(h, "hung", None, None, env)

NoEnv == [none |-> TRUE]

(***************************************************************************)
(* bytes.decode(): UTF-8.                                                  *)
(***************************************************************************)
\* A byte that is not valid UTF-8 wherever it stands.
BadByte == "\\xff"

\* The two bytes of a character that UTF-8 encodes in two (U+00E9): the
\* lead byte and the continuation byte.  Every other element of a stream
\* is a character that its bytes encode whole.
TwoBytes == <<"\\xc3", "\\xa9">>

\* Whether the i-th byte is part of no well-formed character: a byte that is
\* never valid, a lead byte without its continuation, or a continuation
\* byte without its lead.
Malformed(bytes, i) ==
    \/ bytes[i] = BadByte
    \/ bytes[i] = TwoBytes[1] /\ (i = Len(bytes) \/ bytes[i + 1] # TwoBytes[2])
    \/ bytes[i] = TwoBytes[2] /\ (i = 1 \/ bytes[i - 1] # TwoBytes[1])

\* bytes.decode(errors="ignore") from the i-th byte on: the malformed bytes
\* are dropped and the well-formed ones become their characters.
RECURSIVE decode_from(_, _)
decode_from(bytes, i) ==
    IF i > Len(bytes) THEN <<>>
    ELSE IF Malformed(bytes, i) THEN decode_from(bytes, i + 1)
    ELSE IF bytes[i] = TwoBytes[1]
    THEN <<"<U+00E9>">> \o decode_from(bytes, i + 2)
    ELSE <<bytes[i]>> \o decode_from(bytes, i + 1)

\* (Bytes that are all ASCII decode to themselves.)
decode_ignore(bytes) ==
    IF \A i \in 1 .. Len(bytes) :
          bytes[i] \notin {BadByte, TwoBytes[1], TwoBytes[2]}
    THEN bytes
    ELSE decode_from(bytes, 1)

(***************************************************************************)
(* The guest: what its monitor and its shell write.                        *)
(***************************************************************************)
Word == <<"o", "k">>

\* What the monitor writes in one dialogue, and whether it then closes the
\* stream (the emulator exits).
MonitorTexts ==
    {<<>>, Word, Prompt, Word \o Prompt, Prompt \o Word \o Prompt,
     <<BadByte>>, TwoBytes \o Prompt}

\* The emulator that writes a character in two pieces exits after the
\* prompt: what a read that raised at the first piece left unread is then
\* read by no later dialogue.
MonitorFeeds ==
    {f \in [bytes : MonitorTexts, eof : BOOLEAN] :
        f.bytes = TwoBytes \o Prompt => f.eof}

\* What the in-guest shell writes before the first command: two bytes, so
\* that a recv can give all of it or a part.
Banners == {<<"$", " ">>}

(***************************************************************************)
(* Machine.__init__                                                        *)
(***************************************************************************)
\* The entries a directory can hold, each with the run that made it (run 0
\* is a run before this handle was made): the two socket inodes, and the
\* file a guest leaves in its working directory (the disk image).
SocketNames == {"monitor", "shell"}

SocketInode(name, run) == [name |-> name, made_by |-> run]

GuestFile(run) == [name |-> "disk", made_by |-> run]

\* The directory as an earlier run of the test driver may have left it.
EarlierStateDirs ==
    {{}, {GuestFile(0)},
     {GuestFile(0), SocketInode("monitor", 0), SocketInode("shell", 0)}}

\* A faulty constructor: the entries found are never deleted.
Machine_init_keeping(keep, found) ==
    [booted |-> FALSE, connected |-> FALSE, pid |-> None, process |-> None,
     monitor |-> None, shell |-> None, guest |-> "none",
     monitorBuf |-> <<>>, shellBuf |-> <<>>, boots |-> 0,
     keep_vm_state |-> keep,
     state_dir |-> found,
     serial |-> <<>>]

\* The handle constructed over a state directory with the entries found:
\* they are deleted unless keep_vm_state, and the directory is (re)made.
Machine_init(keep, found) ==
    [booted |-> FALSE, connected |-> FALSE, pid |-> None, process |-> None,
     monitor |-> None, shell |-> None, guest |-> "none",
     monitorBuf |-> <<>>, shellBuf |-> <<>>, boots |-> 0,
     keep_vm_state |-> keep,
     state_dir |-> IF ~keep THEN {} ELSE found,
     serial |-> <<>>]

(***************************************************************************)
(* Machine._wait_for_monitor_prompt                                        *)
(***************************************************************************)
MonitorRecvSize == 1024

\* A faulty read: one recv, and what it returned is the reply.
monitor_recv_once(answer, wire, cuts, eof) ==
    IF wire = <<>>
    THEN {[kind |-> IF eof THEN "returned" ELSE "hung",
           answer |-> answer, unread |-> <<>>, closed |-> eof]}
    ELSE {LET chunk == SubSeq(wire, 1, n)
              rest == SubSeq(wire, n + 1, Len(wire))
          IN  IF \E j \in 1 .. n : Malformed(chunk, j)
              THEN [kind |-> "raised", answer |-> answer, unread |-> rest,
                    closed |-> FALSE]
              ELSE [kind |-> "returned",
                    answer |-> answer \o decode_ignore(chunk),
                    unread |-> rest, closed |-> FALSE]
          : n \in IF cuts = 0 THEN {Len(wire)}
                  ELSE {m \in 1 .. Len(wire) : m <= MonitorRecvSize}}

\* The loop, wire being the bytes the stream holds or will hold: each recv
\* returns the first n of them (all of them once recv has cut the bytes
\* cuts times), and, when none is left, b"" when the stream is closed (eof)
\* or nothing at all.  Each chunk is decoded on its own and strictly: a chunk
\* with a malformed byte, which a character cut by recv makes, raises
\* UnicodeDecodeError.  The result tells how the loop ended, with the answer
\* and the bytes left unread.
RECURSIVE monitor_recv_loop(_, _, _, _)
monitor_recv_loop(answer, wire, cuts, eof) ==
    IF wire = <<>>
    THEN {[kind |-> IF eof THEN "returned" ELSE "hung",
           answer |-> answer, unread |-> <<>>, closed |-> eof]}
    ELSE UNION
         {LET chunk == SubSeq(wire, 1, n)
              rest == SubSeq(wire, n + 1, Len(wire))
          IN  IF \E j \in 1 .. n : Malformed(chunk, j)
              THEN {[kind |-> "raised", answer |-> answer, unread |-> rest,
                     closed |-> FALSE]}
              ELSE LET grown == answer \o decode_ignore(chunk)
                   IN  IF EndsWith(grown, Prompt)
                       THEN {[kind |-> "returned", answer |-> grown,
                              unread |-> rest, closed |-> FALSE]}
                       ELSE monitor_recv_loop(grown, rest,
                                              IF n < Len(wire) THEN cuts - 1
                                              ELSE cuts, eof)
          : n \in IF cuts = 0 THEN {Len(wire)}
                  ELSE {m \in 1 .. Len(wire) : m <= MonitorRecvSize}}

\* The outcomes of one call while the monitor writes fed.
wait_for_monitor_prompt_fed(h, fed) ==
    {LET after == [h EXCEPT !.monitorBuf = r.unread,
                            !.guest = IF fed.eof THEN "dead" ELSE @]
         env == [fed |-> fed, closed |-> r.closed, answer |-> r.answer]
     IN  CASE r.kind = "returned" -> Returned(after, r.answer, env)
           [] r.kind = "raised" ->
                Raised(after, Exc("UnicodeDecodeError"), env)
           [] OTHER -> Hung(after, env)
     : r \in monitor_recv_loop(<<>>, h.monitorBuf \o fed.bytes,
                               MaxMonitorCuts, fed.eof \/ h.guest = "dead")}

\* The feeds are those that keep the stream within MaxWire unread bytes;
\* the monitor writes bytes that are not UTF-8 into an empty stream only.
_wait_for_monitor_prompt(h, feeds) ==
    IF h.monitor = None
    THEN {Raised(h, Exc("AssertionError"), NoEnv)}
    ELSE UNION {wait_for_monitor_prompt_fed(h, fed) :
                  fed \in {f \in feeds :
                             /\ Len(h.monitorBuf) + Len(f.bytes) <= MaxWire
                             /\ h.monitorBuf = <<>>
                                \/ \A i \in 1 .. Len(f.bytes) :
                                      ~Malformed(f.bytes, i)}}

(***************************************************************************)
(* Machine.start                                                           *)
(***************************************************************************)
\* clear(path) and create_socket(path) for the two socket paths: a stale
\* inode is unlinked and bind makes the inode anew.
create_sockets(entries, run) ==
    {e \in entries : e.name \notin SocketNames}
    \cup {SocketInode(name, run) : name \in SocketNames}

\* The two listeners are made and the subprocess is spawned in state_dir,
\* where it leaves a file unless one is there already (the disk image); its
\* stdout is a pipe that nothing reads yet.  No peer is accepted yet: the
\* handle keeps the streams it had.  Nothing ends the subprocess spawned
\* before: when it has not exited (the start that spawned it raised), it
\* runs on, orphaned, with its stdout and its reader.
spawn(h) ==
    [h EXCEPT !.process = [popen |-> h.boots + 1],
              !.guest = "running",
              !.boots = h.boots + 1,
              !.state_dir =
                  create_sockets(@, h.boots + 1)
                  \cup (IF \E e \in @ : e.name = "disk" THEN {}
                        ELSE {GuestFile(h.boots + 1)}),
              !.serial =
                  Append([n \in DOMAIN @ |->
                             IF n = h.boots
                             THEN [@[n] EXCEPT !.orphaned =
                                      h.guest \in {"running", "killed"}]
                             ELSE @[n]],
                         [emitted |-> 0, at |-> <<>>, read |-> 0,
                          reader |-> "none", orphaned |-> FALSE])]

\* monitor_socket.accept(): the stream to the monitor of the subprocess
\* just spawned.
accept_monitor(h) ==
    [h EXCEPT !.monitor = [socket |-> "monitor", of |-> h.boots],
              !.monitorBuf = <<>>]

\* A faulty second accept: the shell peer is never accepted.
accept_without_shell(h) ==
    {Returned([h EXCEPT !.shellBuf = banner], None, NoEnv)
     : banner \in Banners}

\* shell_socket.accept(): it blocks until the subprocess connects to the
\* listener, for ever when it never does (it goes on running without
\* connecting, or it exits first).  accepted counts the accepts of start
\* that returned.
accept_shell(h) ==
    {Hung(g, [accepted |-> 1]) : g \in {h, [h EXCEPT !.guest = "dead"]}}
    \cup {Returned([h EXCEPT !.shell = [socket |-> "shell", of |-> h.boots,
                                       closed |-> FALSE],
                            !.shellBuf = banner],
                   None, NoEnv)
          : banner \in Banners}

\* The two accepts, the monitor's first, which blocks likewise.
accept(h) ==
    {Hung(g, [accepted |-> 0]) : g \in {h, [h EXCEPT !.guest = "dead"]}}
    \cup accept_shell(accept_monitor(h))

\* start without the start_new_thread call: no reader is started.
start_without_reader(h) == h

\* _thread.start_new_thread(process_serial_output, ()): a reader thread on
\* the stdout of the subprocess just spawned.
start_serial_reader(h) == [h EXCEPT !.serial[h.boots].reader = "reading"]

\* start from its priming read on (lines 352-355).
start_prompted(h) ==
    {IF r.kind = "returned"
     THEN Returned([r.h EXCEPT !.pid = [pid |-> r.h.process.popen],
                               !.booted = TRUE],
                   None, r.env)
     ELSE r
     : r \in _wait_for_monitor_prompt(h, MonitorFeeds)}

\* start from its accepts on (lines 339-355).
start_accepting(h) ==
    UNION {IF a.kind = "returned"
           THEN start_prompted(start_serial_reader(a.h))
           ELSE {a}
           : a \in accept(h)}

\* A handle with the field start_ends is the handle of a start under way,
\* blocked in its accepts or in its priming read: start ends in one of the
\* ways the field names.
start(h) ==
    IF h.booted THEN {Returned(h, None, NoEnv)}
    ELSE IF "start_ends" \in DOMAIN h THEN h.start_ends
    ELSE IF h.boots >= MaxBoots THEN {}
    ELSE start_accepting(spawn(h))

(***************************************************************************)
(* Machine._wait_for_shutdown                                              *)
(***************************************************************************)
\* A faulty _wait_for_shutdown: pid is not cleared.
wait_for_shutdown_keeping_pid(h) ==
    IF ~h.booted THEN Returned(h, None, NoEnv)
    ELSE IF h.guest = "running" THEN Hung(h, NoEnv)
    ELSE Returned([h EXCEPT !.guest = "dead", !.booted = FALSE,
                            !.connected = FALSE], None, NoEnv)

\* A faulty _wait_for_shutdown: connected is not cleared.
wait_for_shutdown_keeping_connected(h) ==
    IF ~h.booted THEN Returned(h, None, NoEnv)
    ELSE IF h.guest = "running" THEN Hung(h, NoEnv)
    ELSE Returned([h EXCEPT !.guest = "dead", !.pid = None,
                            !.booted = FALSE], None, NoEnv)

\* process.wait() returns once the subprocess has exited, which a killed
\* one does and one that goes on running never does.
_wait_for_shutdown(h) ==
    IF ~h.booted THEN Returned(h, None, NoEnv)
    ELSE IF h.guest = "running" THEN Hung(h, NoEnv)
    ELSE Returned([h EXCEPT !.guest = "dead", !.pid = None,
                            !.booted = FALSE, !.connected = FALSE],
                  None, NoEnv)

(***************************************************************************)
(* Machine.release                                                         *)
(***************************************************************************)
\* process.kill(): SIGKILL is sent and nothing is waited for; a subprocess
\* that has exited already stays as it is.
kill(h) == [h EXCEPT !.guest = IF @ = "running" THEN "killed" ELSE @]

\* A release that also marks the handle shut, as shutdown and crash do.
release_to_shut(h) ==
    IF h.pid = None THEN {Returned(h, None, NoEnv)}
    ELSE {Returned([kill(h) EXCEPT !.pid = None, !.booted = FALSE,
                                   !.connected = FALSE],
                   None, NoEnv)}

release(h) ==
    IF h.pid = None THEN {Returned(h, None, NoEnv)}
    ELSE {Returned(kill(h), None, NoEnv)}

(***************************************************************************)
(* Machine.connect                                                         *)
(***************************************************************************)
ConnectRecvSize == 1024

\* A socket that was closed (shell_interact closes self.shell): send and
\* recv on it raise OSError.
Closed(stream) == stream # None /\ stream.closed

\* self.shell.recv(1024), its result dropped, then connected = True.  The
\* one recv takes primed of the bytes the stream had (none when the stream
\* is closed and empty, which it is once a killed guest has exited), and
\* blocks while the stream is open and empty.
connect_prime(h) ==
    IF Closed(h.shell) THEN {Raised(h, Exc("OSError"), NoEnv)}
    ELSE IF h.shellBuf # <<>>
    THEN {Returned([h EXCEPT !.shellBuf = SubSeq(@, k + 1, Len(@)),
                             !.connected = TRUE], None,
                   [primed |-> k, had |-> h.shellBuf])
          : k \in {n \in 1 .. Len(h.shellBuf) : n <= ConnectRecvSize}}
    ELSE IF h.guest \in {"dead", "killed"}
    THEN {Returned([h EXCEPT !.connected = TRUE, !.guest = "dead"], None,
                   [primed |-> 0, had |-> <<>>])}
    ELSE {Hung(h, NoEnv)}

\* The handles a set of outcomes returns with, and the outcomes that do not
\* return (they end the enclosing call too).
ReturnedHandles(outcomes) == {r.h : r \in {o \in outcomes : o.kind = "returned"}}

NotReturned(outcomes) == {o \in outcomes : o.kind # "returned"}

\* A faulty connect: the priming read is made even when already connected.
connect_always_primes(h) ==
    IF "connect_ends" \in DOMAIN h THEN h.connect_ends
    ELSE LET started == start(h)
         IN  NotReturned(started)
             \cup UNION {connect_prime(s) : s \in ReturnedHandles(started)}

\* A handle with the field connect_ends is the handle of a connect under
\* way, blocked in its priming read: connect ends in one of the ways the
\* field names.
connect(h) ==
    IF h.connected THEN {Returned(h, None, NoEnv)}
    ELSE IF "connect_ends" \in DOMAIN h THEN h.connect_ends
    ELSE LET started == start(h)
         IN  NotReturned(started)
             \cup UNION {connect_prime(s) : s \in ReturnedHandles(started)}

(***************************************************************************)
(* Machine.send_monitor_command                                            *)
(***************************************************************************)
\* "quit" makes the emulator exit: its monitor stream closes.
RepliesTo(command) ==
    IF command = "quit" THEN {f \in MonitorFeeds : f.eof} ELSE MonitorFeeds

\* The emulator exits with the command unread, as one that is being
\* killed does: recv, once it has given what the stream still held, raises
\* ConnectionResetError.
monitor_reset(h) ==
    {IF r.kind = "hung"
     THEN Raised([h EXCEPT !.monitorBuf = <<>>, !.guest = "dead"],
                 Exc("ConnectionResetError"), NoEnv)
     ELSE r
     : r \in wait_for_monitor_prompt_fed(h, [bytes |-> <<>>, eof |-> FALSE])}

\* A send_monitor_command that raises when the stream closed before the
\* prompt, which the code does not.
send_monitor_command_checked(h, command) ==
    IF h.monitor = None THEN {Raised(h, Exc("AssertionError"), NoEnv)}
    ELSE IF h.guest \notin {"running", "killed"}
    THEN {Raised(h, Exc("BrokenPipeError"), NoEnv)}
    ELSE monitor_reset(h)
         \cup IF h.guest = "killed" THEN {}
              ELSE {IF r.kind = "returned" /\ r.env.closed
                    THEN Raised(r.h, Exc("MonitorProtocolError"), r.env)
                    ELSE r
                    : r \in _wait_for_monitor_prompt(h, RepliesTo(command))}

\* The send fails on a stream whose peer has exited.  A peer that is alive
\* at the send reads the command and replies, or exits with it unread.
send_monitor_command(h, command) ==
    IF h.monitor = None THEN {Raised(h, Exc("AssertionError"), NoEnv)}
    ELSE IF h.guest \notin {"running", "killed"}
    THEN {Raised(h, Exc("BrokenPipeError"), NoEnv)}
    ELSE monitor_reset(h)
         \cup IF h.guest = "killed" THEN {}
              ELSE _wait_for_monitor_prompt(h, RepliesTo(command))

(***************************************************************************)
(* Machine.send_key and Machine.send_chars                                 *)
(***************************************************************************)
\* ("<backquote>" is the character U+0060, which a string of this notation
\* cannot hold.)
CHAR_TO_KEY ==
    "A" :> "shift-a" @@ "N" :> "shift-n" @@ "-" :> "0x0C" @@
    "_" :> "shift-0x0C" @@ "B" :> "shift-b" @@ "O" :> "shift-o" @@
    "=" :> "0x0D" @@ "+" :> "shift-0x0D" @@ "C" :> "shift-c" @@
    "P" :> "shift-p" @@ "[" :> "0x1A" @@ "{" :> "shift-0x1A" @@
    "D" :> "shift-d" @@ "Q" :> "shift-q" @@ "]" :> "0x1B" @@
    "}" :> "shift-0x1B" @@ "E" :> "shift-e" @@ "R" :> "shift-r" @@
    ";" :> "0x27" @@ ":" :> "shift-0x27" @@ "F" :> "shift-f" @@
    "S" :> "shift-s" @@ "'" :> "0x28" @@ "\"" :> "shift-0x28" @@
    "G" :> "shift-g" @@ "T" :> "shift-t" @@ "<backquote>" :> "0x29" @@
    "~" :> "shift-0x29" @@ "H" :> "shift-h" @@ "U" :> "shift-u" @@
    "\\" :> "0x2B" @@ "|" :> "shift-0x2B" @@ "I" :> "shift-i" @@
    "V" :> "shift-v" @@ "," :> "0x33" @@ "<" :> "shift-0x33" @@
    "J" :> "shift-j" @@ "W" :> "shift-w" @@ "." :> "0x34" @@
    ">" :> "shift-0x34" @@ "K" :> "shift-k" @@ "X" :> "shift-x" @@
    "/" :> "0x35" @@ "?" :> "shift-0x35" @@ "L" :> "shift-l" @@
    "Y" :> "shift-y" @@ " " :> "spc" @@ "M" :> "shift-m" @@
    "Z" :> "shift-z" @@ "\n" :> "ret" @@ "!" :> "shift-0x02" @@
    "@" :> "shift-0x03" @@ "#" :> "shift-0x04" @@ "$" :> "shift-0x05" @@
    "%" :> "shift-0x06" @@ "^" :> "shift-0x07" @@ "&" :> "shift-0x08" @@
    "*" :> "shift-0x09" @@ "(" :> "shift-0x0A" @@ ")" :> "shift-0x0B"

\* CHAR_TO_KEY.get(key, key)
key_token(key) == IF key \in DOMAIN CHAR_TO_KEY THEN CHAR_TO_KEY[key] ELSE key

\* f"sendkey {key}"
sendkey_command(key) == "sendkey " \o key_token(key)

\* self.send_monitor_command(command) with the reply dropped: the outcomes,
\* each with the command that was handed over and the reply it got.
monitor_command_sent(h, command) ==
    {[o EXCEPT !.val = None,
               !.env = [command |-> command, reply |-> o.val,
                        dialogue |-> o.env]]
     : o \in send_monitor_command(h, command)}

\* A faulty send_key: the key table is not consulted.
send_key_raw(h, key) == monitor_command_sent(h, "sendkey " \o key)

send_key(h, key) == monitor_command_sent(h, sendkey_command(key))

\* One monitor command of send_chars, as it ended.
KeySent(o) ==
    [command |-> o.env.command, kind |-> o.kind, reply |-> o.env.reply,
     env |-> o.env.dialogue]

\* The loop of send_chars from the i-th character on, sent being the
\* monitor commands issued so far.
RECURSIVE send_chars_from(_, _, _, _)
send_chars_from(h, chars, i, sent) ==
    IF i > Len(chars) THEN {Returned(h, None, [sent |-> sent])}
    ELSE UNION {LET made == Append(sent, KeySent(o))
                IN  IF o.kind # "returned"
                    THEN {Outcome(o.h, o.kind, o.exc, None, [sent |-> made])}
                    ELSE send_chars_from(o.h, chars, i + 1, made)
                : o \in send_key(h, chars[i])}

send_chars(h, chars) == send_chars_from(h, chars, 1, <<>>)

(***************************************************************************)
(* Machine.shutdown and Machine.crash                                      *)
(***************************************************************************)
\* The guest obeys "poweroff" (it exits) or ignores it; a guest that is
\* being killed takes the bytes and exits; the send fails once it has exited.
shutdown(h) ==
    IF ~h.booted THEN {Returned(h, None, NoEnv)}
    ELSE IF Closed(h.shell) THEN {Raised(h, Exc("OSError"), NoEnv)}
    ELSE IF h.guest = "killed" THEN {_wait_for_shutdown(h)}
    ELSE IF h.guest # "running" THEN {Raised(h, Exc("BrokenPipeError"), NoEnv)}
    ELSE {_wait_for_shutdown([h EXCEPT !.guest = IF obeys THEN "dead" ELSE @])
          : obeys \in BOOLEAN}

crash(h) ==
    IF ~h.booted THEN {Returned(h, None, NoEnv)}
    ELSE {IF r.kind = "returned"
          THEN [_wait_for_shutdown(r.h) EXCEPT !.env = r.env]
          ELSE r
          : r \in send_monitor_command(h, "quit")}

(***************************************************************************)
(* Machine.is_up                                                           *)
(***************************************************************************)
is_up(h) == h.booted /\ h.connected

(***************************************************************************)
(* The shell channel: the guest's side of one command.                     *)
(***************************************************************************)
Digits == <<"0", "1", "2", "3", "4", "5", "6", "7", "8", "9">>

\* The decimal digits of other scripts (Unicode category Nd), which \d of a
\* str pattern matches and int() converts as well: the digit d of a script
\* is written "<SCRIPT d>".  Scripts lists some of them; the digits of the
\* others behave alike.
Scripts == {"ARABIC-INDIC", "DEVANAGARI", "FULLWIDTH"}

ScriptDigit(script, d) == "<" \o script \o " " \o Digits[d] \o ">"

\* What \d matches.
IsDigit(c) ==
    \E d \in 1 .. 10 :
        Digits[d] = c \/ \E script \in Scripts : ScriptDigit(script, d) = c

\* int() of one digit.
DigitValue(c) ==
    (CHOOSE d \in 1 .. 10 :
        Digits[d] = c \/ \E script \in Scripts : ScriptDigit(script, d) = c)
    - 1

\* The decimal digits of a natural number, as echo prints $?.
RECURSIVE ToDigits(_)
ToDigits(n) ==
    IF n < 10 THEN <<Digits[n + 1]>>
    ELSE ToDigits(n \div 10) \o <<Digits[(n % 10) + 1]>>

\* What the shell writes for "( command ); echo '|!=EOF' $?": the command's
\* output, then the sentinel, a space, the exit status and a newline.
ShellReply(out, status) ==
    out \o Sentinel \o <<" ">> \o ToDigits(status) \o <<"\n">>

\* The unit states systemctl show prints.  A word that holds neither "=" nor
\* a newline nor a space nor a digit stands for its characters as one element.
UnitStates == {"active", "inactive", "failed", "activating"}

UnitShow(state) == <<"ActiveState", "=", state, "\n">>

ShowCommand == "systemctl --no-pager show \"u\""

ListJobsCommand == "systemctl list-jobs --full 2>&1"

\* A command whose result changes with time: it fails while the guest has
\* no file f and prints the file once it is there (or the other way round,
\* for a file that goes away).
PollCommand == "cat f"

ShellCommands ==
    {"true", "printf hi; exit 7", "echo a", "printf 'a\\nb'; exit 12",
     "printf 'h\\xff'"}

\* What running a command in the guest can print and exit with.
GuestRuns(command) ==
    CASE command = "true" -> {[out |-> <<>>, status |-> 0]}
      [] command = "printf hi; exit 7" ->
            {[out |-> <<"h", "i">>, status |-> 7]}
      [] command = "echo a" -> {[out |-> <<"a", "\n">>, status |-> 0]}
      [] command = "printf 'a\\nb'; exit 12" ->
            {[out |-> <<"a", "\n", "b">>, status |-> 12]}
      [] command = "printf 'h\\xff'" ->
            {[out |-> <<"h", BadByte>>, status |-> 0]}
      [] command = ShowCommand ->
            {[out |-> UnitShow(st), status |-> 0] : st \in UnitStates}
            \cup {[out |-> <<"Failed">>, status |-> 1]}
      [] command = ListJobsCommand ->
            {[out |-> <<"No jobs", " ", "running.", "\n">>, status |-> 0],
             [out |-> <<"JOB", " ", "UNIT", "\n">>, status |-> 0]}
      [] command = PollCommand ->
            {[out |-> <<"no">>, status |-> 1], [out |-> <<"ok">>, status |-> 0]}

(***************************************************************************)
(* Machine.execute                                                         *)
(***************************************************************************)
ShellRecvSize == 4096

\* The white space of str: what \s of a str pattern matches and what
\* str.rstrip() strips.  A character this notation cannot write stands as
\* its name: U+000B, U+001C .. U+001F, U+0085, U+00A0, U+1680, U+2000 ..
\* U+200A (one name for the eleven), U+2028, U+2029, U+202F, U+205F, U+3000.
IsSpace(c) ==
    c \in {" ", "\t", "\n", "\r", "\f", "<VT>", "<FS>", "<GS>", "<RS>", "<US>",
           "<NEL>", "<NBSP>", "<OGHAM SPACE>", "<EN QUAD..HAIR SPACE>", "<LS>",
           "<PS>", "<NNBSP>", "<MMSP>", "<IDEOGRAPHIC SPACE>"}

RECURSIVE SpaceRun(_, _)
SpaceRun(s, i) ==
    IF i <= Len(s) /\ IsSpace(s[i]) THEN 1 + SpaceRun(s, i + 1) ELSE 0

RECURSIVE DigitRun(_, _)
DigitRun(s, i) ==
    IF i <= Len(s) /\ IsDigit(s[i]) THEN 1 + DigitRun(s, i + 1) ELSE 0

\* int(digits)
RECURSIVE ToInt(_)
ToInt(digits) ==
    IF digits = <<>> THEN 0
    ELSE 10 * ToInt(SubSeq(digits, 1, Len(digits) - 1))
         + DigitValue(digits[Len(digits)])

\* Whether (.*)\|\!=EOF\s+(\d+) matches with group 1 = the first p characters:
\* "." matches no newline, \s+ and \d+ take all they can.
MatchesWithPrefix(chunk, p) ==
    /\ \A j \in 1 .. p : chunk[j] # "\n"
    /\ StartsWithAt(chunk, p + 1, Sentinel)
    /\ SpaceRun(chunk, p + 1 + Len(Sentinel)) >= 1
    /\ DigitRun(chunk, p + 1 + Len(Sentinel)
                       + SpaceRun(chunk, p + 1 + Len(Sentinel))) >= 1

\* status_code_pattern.match(chunk): anchored at the start of the chunk, the
\* greedy (.*) keeps the longest prefix that lets the rest match.
status_code_pattern_match(chunk) ==
    LET ps == {p \in 0 .. Len(chunk) : MatchesWithPrefix(chunk, p)}
    IN  IF ps = {} THEN [matched |-> FALSE]
        ELSE LET p == CHOOSE q \in ps : \A o \in ps : o <= q
                 d == p + 1 + Len(Sentinel)
                      + SpaceRun(chunk, p + 1 + Len(Sentinel))
             IN  [matched |-> TRUE, group1 |-> SubSeq(chunk, 1, p),
                  group2 |-> SubSeq(chunk, d, d + DigitRun(chunk, d) - 1)]

\* pprint(output) prints its argument and returns None.
pprint(output) == None

\* The loop of execute over the chunks recv returns; when they are used up
\* recv blocks (or, the stream closed, returns b"" again and again).
RECURSIVE shell_recv_loop(_, _, _)
shell_recv_loop(output, chunks, i) ==
    IF i > Len(chunks)
    THEN [kind |-> "hung", output |-> output, read |-> Len(chunks)]
    ELSE LET chunk == decode_ignore(chunks[i])
             match == status_code_pattern_match(chunk)
         IN  IF match.matched
             THEN [kind |-> "returned", read |-> i,
                   output |-> output \o match.group1,
                   status_code |-> ToInt(match.group2)]
             ELSE shell_recv_loop(output \o chunk, chunks, i + 1)

\* The frame is sent and the guest reads it, or exits with it unread (fate
\* "reset").  A guest that reads it runs the command, and writes its output
\* and the sentinel frame (fate "ran"), or exits before it has written the
\* sentinel frame, having written nothing or the output (fate "died", with
\* the bytes written).  recv gives what the stream holds; then it blocks,
\* or, the guest gone, returns b"" again and again, or raises
\* ConnectionResetError when the frame was left unread.
execute_read(h, ran, fate, written) ==
    LET wire == h.shellBuf
                \o (CASE fate = "ran" -> ShellReply(ran.out, ran.status)
                      [] fate = "died" -> SubSeq(ran.out, 1, written)
                      [] OTHER -> <<>>)
        after(r, chunks) ==
            [h EXCEPT !.shellBuf =
                          Concat(SubSeq(chunks, r.read + 1, Len(chunks))),
                      !.guest = IF fate = "died" THEN "dead" ELSE @]
        env(r) ==
            CASE fate = "ran" -> [ran |-> ran, output |-> r.output,
                                  connected |-> h.connected]
              [] fate = "died" -> [died |-> ran, written |-> written,
                                   output |-> r.output,
                                   connected |-> h.connected]
              [] OTHER -> [reset |-> TRUE, output |-> r.output,
                           connected |-> h.connected]
    IN  {LET r == shell_recv_loop(<<>>, chunks, 1)
         IN  IF r.kind = "returned"
             THEN Returned(after(r, chunks),
                           <<r.status_code, pprint(Str(r.output))>>, env(r))
             ELSE IF fate = "reset"
             THEN Raised([h EXCEPT !.shellBuf = <<>>, !.guest = "dead"],
                         Exc("ConnectionResetError"), NoEnv)
             ELSE Hung(after(r, chunks), env(r))
         : chunks \in Chunkings(wire, ShellRecvSize, MaxCuts)}

\* The send fails on a stream whose peer has exited; a guest that is being
\* killed exits with the frame unread.
execute_connected(h, command) ==
    IF Closed(h.shell) THEN {Raised(h, Exc("OSError"), NoEnv)}
    ELSE IF h.guest \notin {"running", "killed"}
    THEN {Raised(h, Exc("BrokenPipeError"), NoEnv)}
    ELSE execute_read(h, None, "reset", 0)
         \cup IF h.guest = "killed" THEN {}
              ELSE UNION {execute_read(h, ran, "ran", 0)
                          \cup UNION {execute_read(h, ran, "died", written)
                                      : written \in {0, Len(ran.out)}}
                          : ran \in {g \in GuestRuns(command) :
                                       Len(h.shellBuf)
                                       + Len(ShellReply(g.out, g.status))
                                       <= MaxWire}}

execute(h, command) ==
    LET connecting == connect(h)
    IN  NotReturned(connecting)
        \cup UNION {execute_connected(c, command)
                    : c \in ReturnedHandles(connecting)}

(***************************************************************************)
(* Machine.shell_interact                                                  *)
(***************************************************************************)
\* What the guest's shell writes when it is handed a typed line: there is
\* no sentinel frame around it.
TypedOutput(typed) == IF typed = "echo hi\n" THEN <<"hi", "\n">> ELSE <<>>

\* The Telnet object of shell_interact is destroyed and its destructor
\* closes the socket, which is self.shell: what was unread is gone.
close_shell(h) == [h EXCEPT !.shell.closed = TRUE, !.shellBuf = <<>>]

\* telnet.interact() on the shell stream, the user typing typed: the line is
\* written raw and what the stream gives is printed as long as the input has
\* not ended; left is what was not read by then.  A typed "poweroff" ends a
\* guest that obeys it.  A guest that exits with the typed line unread
\* makes the read raise ConnectionResetError; when the guest has exited
\* before, the write fails unless the end of the stream was seen first.
\* The Telnet object is destroyed when interact has returned, and when it
\* has raised once the exception is let go, which the caller does at once
\* or never.  On a socket that is closed already interact raises
\* ValueError.
interact(h, typed) ==
    LET env(left) == [typed |-> typed, left |-> left]
        Suffixes(wire) ==
            {SubSeq(wire, k + 1, Len(wire)) : k \in 0 .. Len(wire)}
        leaving(g, wire) ==
            {Returned(close_shell(g), None, env(left))
             : left \in Suffixes(wire)}
        raising(g, exc, left) ==
            {Raised(after, Exc(exc), env(left))
             : after \in {[g EXCEPT !.shellBuf = left], close_shell(g)}}
        reset ==
            IF typed = "" THEN {}
            ELSE raising([h EXCEPT !.guest = "dead"], "ConnectionResetError",
                         <<>>)
    IN  IF Closed(h.shell) THEN {Raised(h, Exc("ValueError"), NoEnv)}
        ELSE IF h.guest = "running"
        THEN reset
             \cup IF typed = "poweroff\n"
                  THEN UNION {leaving([h EXCEPT !.guest =
                                          IF obeys THEN "dead" ELSE @],
                                      h.shellBuf)
                              : obeys \in BOOLEAN}
                  ELSE leaving(h, h.shellBuf \o TypedOutput(typed))
        ELSE IF h.guest = "killed"
        THEN reset \cup leaving(h, h.shellBuf)
        ELSE IF typed = ""
        THEN leaving(h, h.shellBuf)
        ELSE leaving(h, <<>>)
             \cup UNION {raising(h, "BrokenPipeError", left)
                         : left \in Suffixes(h.shellBuf)}

shell_interact(h, typed) ==
    LET connecting == connect(h)
    IN  NotReturned(connecting)
        \cup UNION {IF c.shell = None
                    THEN {Raised(c, Exc("AssertionError"), NoEnv)}
                    ELSE interact(c, typed)
                    : c \in {r \in ReturnedHandles(connecting) :
                               Len(r.shellBuf) + Len(TypedOutput(typed))
                               <= MaxUnread}}

(***************************************************************************)
(* Machine.succeed and Machine.fail                                        *)
(***************************************************************************)
CommandFailed(command, status) ==
    [exception |-> "command failed", command |-> command,
     exit_code |-> status]

UnexpectedlySucceeded(command) ==
    [exception |-> "command unexpectedly succeeded", command |-> command]

\* One execution of a command, as the caller of execute saw it.
Execution(command, o) ==
    [command |-> command, kind |-> o.kind, val |-> o.val, env |-> o.env]

\* output += out, as an outcome: a str and None cannot be added.
str_iadd(h, output, out, env) ==
    IF out = None THEN Raised(h, Exc("TypeError"), env)
    ELSE Returned(h, Str(output.text \o out.text), env)

\* The loop of succeed from the i-th command on, output being the outputs
\* added so far and runs the executions made so far.
RECURSIVE succeed_from(_, _, _, _, _)
succeed_from(h, commands, i, output, runs) ==
    IF i > Len(commands) THEN {Returned(h, output, [runs |-> runs])}
    ELSE UNION {LET made == Append(runs, Execution(commands[i], o))
                    added == str_iadd(o.h, output, o.val[2], [runs |-> made])
                IN  IF o.kind # "returned"
                    THEN {Outcome(o.h, o.kind, o.exc, None, [runs |-> made])}
                    ELSE IF o.val[1] # 0
                    THEN {Raised(o.h, CommandFailed(commands[i], o.val[1]),
                                 [runs |-> made])}
                    ELSE IF added.kind = "raised" THEN {added}
                    ELSE succeed_from(o.h, commands, i + 1, added.val, made)
                : o \in execute(h, commands[i])}

succeed(h, commands) == succeed_from(h, commands, 1, Str(<<>>), <<>>)

\* The loop of fail from the i-th command on.
RECURSIVE fail_from(_, _, _, _, _)
fail_from(h, commands, i, output, runs) ==
    IF i > Len(commands) THEN {Returned(h, output, [runs |-> runs])}
    ELSE UNION {LET made == Append(runs, Execution(commands[i], o))
                    added == str_iadd(o.h, output, o.val[2], [runs |-> made])
                IN  IF o.kind # "returned"
                    THEN {Outcome(o.h, o.kind, o.exc, None, [runs |-> made])}
                    ELSE IF o.val[1] = 0
                    THEN {Raised(o.h, UnexpectedlySucceeded(commands[i]),
                                 [runs |-> made])}
                    ELSE IF added.kind = "raised" THEN {added}
                    ELSE fail_from(o.h, commands, i + 1, added.val, made)
                : o \in execute(h, commands[i])}

fail(h, commands) == fail_from(h, commands, 1, Str(<<>>), <<>>)

(***************************************************************************)
(* Machine.systemctl and Machine.get_unit_info (user is None)              *)
(***************************************************************************)
systemctl(h, command) == execute(h, command)

\* text.split("\n")
RECURSIVE split_lines(_)
split_lines(text) ==
    IF \A i \in 1 .. Len(text) : text[i] # "\n" THEN <<text>>
    ELSE LET n == CHOOSE i \in 1 .. Len(text) :
                      /\ text[i] = "\n"
                      /\ \A j \in 1 .. (i - 1) : text[j] # "\n"
         IN  <<SubSeq(text, 1, n - 1)>>
             \o split_lines(SubSeq(text, n + 1, Len(text)))

\* line_pattern = ^([^=]+)=(.*)$ on one line: the key is what stands before
\* the first "=", and is not empty.
line_pattern_match(line) ==
    LET eqs == {i \in 1 .. Len(line) : line[i] = "="}
    IN  IF eqs = {} THEN [matched |-> FALSE]
        ELSE LET e == CHOOSE i \in eqs : \A j \in eqs : i <= j
             IN  IF e = 1 THEN [matched |-> FALSE]
                 ELSE [matched |-> TRUE, key |-> SubSeq(line, 1, e - 1),
                       value |-> SubSeq(line, e + 1, Len(line))]

\* dict(tuple_from_line(line) for line in lines if line_pattern.match(line)):
\* a later line with the same key overwrites an earlier one.
RECURSIVE dict_from_lines(_)
dict_from_lines(lines) ==
    IF lines = <<>> THEN <<>>
    ELSE LET before == dict_from_lines(SubSeq(lines, 1, Len(lines) - 1))
             m == line_pattern_match(lines[Len(lines)])
         IN  IF ~m.matched THEN before
             ELSE [k \in DOMAIN before \cup {m.key} |->
                      IF k = m.key THEN m.value ELSE before[k]]

get_unit_info_of(r) ==
    IF r.kind # "returned" THEN r
    ELSE IF r.val[1] # 0 THEN Raised(r.h, Exc("retrieving systemctl info failed"), r.env)
    ELSE IF r.val[2] = None THEN Raised(r.h, Exc("AttributeError"), r.env)
    ELSE Returned(r.h, dict_from_lines(split_lines(r.val[2].text)), r.env)

get_unit_info(h) == {get_unit_info_of(r) : r \in systemctl(h, ShowCommand)}

(***************************************************************************)
(* Machine.wait_for_unit.check_active                                      *)
(***************************************************************************)
ActiveStateKey == <<"ActiveState">>

\* "No jobs" in jobs
RECURSIVE contains(_, _)
contains(text, word) ==
    /\ Len(text) >= Len(word)
    /\ \/ StartsWithAt(text, 1, word)
       \/ contains(Tail(text), word)

\* What one poll can end in; env keeps what the guest printed for each of
\* the queries the poll made.
Readings(first, jobs, second) ==
    [first |-> first, jobs |-> jobs, second |-> second]

check_active_refetch(state, first, jobs, i2) ==
    IF i2.kind # "returned"
    THEN Outcome(i2.h, i2.kind, i2.exc, None, Readings(first, jobs, i2.env))
    ELSE IF ActiveStateKey \notin DOMAIN i2.val
    THEN Raised(i2.h, Exc("KeyError"), Readings(first, jobs, i2.env))
    ELSE IF i2.val[ActiveStateKey] = state
    THEN Raised(i2.h, Exc("unit is inactive and there are no pending jobs"),
                Readings(first, jobs, i2.env))
    ELSE Returned(i2.h, state = <<"active">>, Readings(first, jobs, i2.env))

check_active_jobs(state, first, j) ==
    IF j.kind # "returned"
    THEN {Outcome(j.h, j.kind, j.exc, None, Readings(first, j.env, None))}
    ELSE IF j.val[2] = None
    THEN {Raised(j.h, Exc("TypeError"), Readings(first, j.env, None))}
    ELSE IF contains(j.val[2].text, <<"No jobs">>)
    THEN {check_active_refetch(state, first, j.env, i2)
          : i2 \in get_unit_info(j.h)}
    ELSE {Returned(j.h, state = <<"active">>, Readings(first, j.env, None))}

check_active_info(i1) ==
    IF i1.kind # "returned"
    THEN {Outcome(i1.h, i1.kind, i1.exc, None, Readings(i1.env, None, None))}
    ELSE IF ActiveStateKey \notin DOMAIN i1.val
    THEN {Raised(i1.h, Exc("KeyError"), Readings(i1.env, None, None))}
    ELSE LET state == i1.val[ActiveStateKey]
         IN  IF state = <<"failed">>
             THEN {Raised(i1.h, Exc("unit reached state failed"),
                          Readings(i1.env, None, None))}
             ELSE IF state = <<"inactive">>
             THEN UNION {check_active_jobs(state, i1.env, j)
                         : j \in systemctl(i1.h, ListJobsCommand)}
             ELSE {Returned(i1.h, state = <<"active">>,
                            Readings(i1.env, None, None))}

check_active(h) == UNION {check_active_info(i1) : i1 \in get_unit_info(h)}

(***************************************************************************)
(* retry                                                                   *)
(***************************************************************************)
DefaultTimeout == 900

\* A predicate handed to retry: check_active, check_success or
\* check_failure of a command, or a scripted one that gives results[1],
\* results[2], ... ("raise" for an exception) call after call.
CheckActive == [name |-> "check_active"]

CheckSuccess(command) == [name |-> "check_success", command |-> command]

CheckFailure(command) == [name |-> "check_failure", command |-> command]

\* status, output = self.execute(command); return status == 0 (check_success)
\* or status != 0 (check_failure).  The value assigned to output is kept
\* with what the guest did.
check_status(fn, o) ==
    IF o.kind # "returned" THEN o
    ELSE Returned(o.h, (fn.name = "check_success") = (o.val[1] = 0),
                  [ran |-> o.env.ran, read |-> o.env.output,
                   status |-> o.val[1], output |-> o.val[2]])

Scripted(results) == [name |-> "scripted", results |-> results, made |-> 0]

\* fn(is_last_attempt): the outcomes, each with the predicate as it is after
\* the call.
call_fn(fn, h, is_last_attempt) ==
    IF fn.name = "check_active"
    THEN {[fn |-> fn, out |-> o] : o \in check_active(h)}
    ELSE IF fn.name \in {"check_success", "check_failure"}
    THEN {[fn |-> fn, out |-> check_status(fn, o)]
          : o \in execute(h, fn.command)}
    ELSE LET result == fn.results[fn.made + 1]
             after == [fn EXCEPT !.made = @ + 1]
         IN  {[fn |-> after,
               out |-> IF result = "raise"
                       THEN Raised(h, Exc("predicate failed"), NoEnv)
                       ELSE Returned(h, result = "True", NoEnv)]}

RetryEnv(timeout, calls) == [timeout |-> timeout, calls |-> calls]

\* The calls that retry makes of the predicate in the states it can be in
\* at one attempt, a state being the predicate, the handle and the calls
\* kept: each call with the predicate and the handle after it and the
\* calls made with it, the call itself as retry's record of it.  (States
\* with one predicate and one handle make the same calls.)
calls_of(states, is_last_attempt) ==
    UNION {{[fn |-> c.fn, out |-> c.out,
             made |-> Append(t.calls,
                             [is_last_attempt |-> is_last_attempt,
                              kind |-> c.out.kind, val |-> c.out.val,
                              env |-> c.out.env])]
            : t \in {u \in states : u.fn = g.fn /\ u.h = g.h},
              c \in call_fn(g.fn, g.h, is_last_attempt)}
           : g \in {[fn |-> u.fn, h |-> u.h] : u \in states}}

\* The states in which retry goes on to its next attempt after the calls
\* going, each followed by time.sleep(1), during which the emulator can
\* exit.  The calls of a scripted predicate are all kept.  A poll of the
\* guest can be made 901 times: the calls before the one at hand, each of
\* which was told that it is not the last attempt and returned False, are
\* kept as one.
slept_after(going) ==
    LET EarlierCalls == [is_last_attempt |-> FALSE, kind |-> "returned",
                         val |-> FALSE, env |-> NoEnv]
        Kept(fn, calls) ==
            IF fn.name = "scripted" THEN calls ELSE <<EarlierCalls>>
        sleep(h) == {h} \cup (IF h.guest \in {"running", "killed"}
                              THEN {[h EXCEPT !.guest = "dead"]}
                              ELSE {})
    IN  UNION {{[fn |-> m.fn, h |-> slept, calls |-> Kept(m.fn, m.made)]
                : slept \in sleep(m.out.h)}
               : m \in going}

\* A faulty retry: the last ordinary attempt is already told it is the last.
RECURSIVE retry_from_early_last(_, _, _)
retry_from_early_last(states, timeout, i) ==
    UNION {LET ended == {m \in made : \/ m.out.kind # "returned"
                                      \/ m.out.val
                                      \/ i >= timeout}
               ends == {LET o == m.out
                            env == RetryEnv(timeout, m.made)
                        IN  IF o.kind # "returned"
                            THEN Outcome(o.h, o.kind, o.exc, None, env)
                            ELSE IF o.val THEN Returned(o.h, None, env)
                            ELSE Raised(o.h, [exception |-> "action timed out",
                                              seconds |-> timeout], env)
                        : m \in ended}
           IN  UNION {ends \cup
                      IF next = {} THEN {}
                      ELSE retry_from_early_last(next, timeout,
                           IF next = states THEN timeout ELSE i + 1)
                      : next \in {slept_after(made \ ended)}}
           : made \in {calls_of(states, i + 1 >= timeout)}}

\* A faulty retry: the result of the final attempt is dropped.
RECURSIVE retry_from_no_timeout(_, _, _)
retry_from_no_timeout(states, timeout, i) ==
    UNION {LET ended == {m \in made : \/ m.out.kind # "returned"
                                      \/ m.out.val
                                      \/ i >= timeout}
               ends == {LET o == m.out
                            env == RetryEnv(timeout, m.made)
                        IN  IF o.kind # "returned"
                            THEN Outcome(o.h, o.kind, o.exc, None, env)
                            ELSE Returned(o.h, None, env)
                        : m \in ended}
           IN  UNION {ends \cup
                      IF next = {} THEN {}
                      ELSE retry_from_no_timeout(next, timeout,
                           IF next = states THEN timeout ELSE i + 1)
                      : next \in {slept_after(made \ ended)}}
           : made \in {calls_of(states, i >= timeout)}}

\* retry from its attempt i on (the attempts 0 .. timeout - 1 are the
\* ordinary ones and the attempt timeout is the last), in the states it can
\* be in there.  A call that does not return, or that returns True, ends
\* retry; so does the last attempt, with the timeout when it returns False.
\* The ordinary attempts differ in nothing but the states they start from:
\* once the states after an attempt are the states before it, the attempts
\* up to the last one repeat it, and retry is taken up at the last attempt.
\* (made and next are bound as the members of one-element sets, so that
\* each is worked out once.)
RECURSIVE retry_from(_, _, _)
retry_from(states, timeout, i) ==
    UNION {LET ended == {m \in made : \/ m.out.kind # "returned"
                                      \/ m.out.val
                                      \/ i >= timeout}
               ends == {LET o == m.out
                            env == RetryEnv(timeout, m.made)
                        IN  IF o.kind # "returned"
                            THEN Outcome(o.h, o.kind, o.exc, None, env)
                            ELSE IF o.val THEN Returned(o.h, None, env)
                            ELSE Raised(o.h, [exception |-> "action timed out",
                                              seconds |-> timeout], env)
                        : m \in ended}
           IN  UNION {ends \cup
                      IF next = {} THEN {}
                      ELSE retry_from(next, timeout,
                           IF next = states THEN timeout ELSE i + 1)
                      : next \in {slept_after(made \ ended)}}
           : made \in {calls_of(states, i >= timeout)}}

retry(fn, h, timeout) ==
    retry_from({[fn |-> fn, h |-> h, calls |-> <<>>]}, timeout, 0)

(***************************************************************************)
(* Machine.wait_for_unit                                                   *)
(***************************************************************************)
wait_for_unit(h) == retry(CheckActive, h, DefaultTimeout)

(***************************************************************************)
(* Machine.wait_until_succeeds and Machine.wait_until_fails                *)
(***************************************************************************)
\* return output, after retry(check) has ended as r: output is what the last
\* execution assigned to it.
return_output(r) ==
    IF r.kind # "returned" THEN r
    ELSE Returned(r.h, r.env.calls[Len(r.env.calls)].env.output, r.env)

wait_until_succeeds(h, command) ==
    {return_output(r) : r \in retry(CheckSuccess(command), h, DefaultTimeout)}

wait_until_fails(h, command) ==
    {return_output(r) : r \in retry(CheckFailure(command), h, DefaultTimeout)}

(***************************************************************************)
(* The calls of the test script.                                           *)
(***************************************************************************)
Flags(h) ==
    [booted |-> h.booted, connected |-> h.connected, pid |-> h.pid,
     process |-> h.process, monitor |-> h.monitor, shell |-> h.shell,
     guest |-> h.guest, boots |-> h.boots,
     monitorBuf |-> h.monitorBuf, shellBuf |-> h.shellBuf,
     state_dir |-> h.state_dir]

Install(h) ==
    /\ booted' = h.booted
    /\ connected' = h.connected
    /\ pid' = h.pid
    /\ process' = h.process
    /\ monitor' = h.monitor
    /\ shell' = h.shell
    /\ guest' = h.guest
    /\ monitorBuf' = h.monitorBuf
    /\ shellBuf' = h.shellBuf
    /\ boots' = h.boots
    /\ keep_vm_state' = h.keep_vm_state
    /\ state_dir' = h.state_dir
    /\ serial' = h.serial

\* The record of no call: the test script is between two calls.
NoCall ==
    [op |-> "none", arg |-> None, pre |-> None, kind |-> "none",
     exc |-> None, val |-> None, env |-> NoEnv]

\* No call is under way.
NoPending == [op |-> "none", arg |-> None, pre |-> None]

\* The test script makes a call of an operation that blocks: the call is
\* under way, in the phase its code blocks in first.
Begin(op, arg, phase) ==
    /\ caller = "ready"
    /\ caller' = phase
    /\ pending' = [op |-> op, arg |-> arg, pre |-> None]
    /\ UNCHANGED <<booted, connected, pid, process, monitor, shell, guest,
                   monitorBuf, shellBuf, boots, last, keep_vm_state,
                   state_dir, serial, delivered, gotten>>

\* The call under way ends as r: last describes it, pre being the handle as
\* the code of the operation found it.
Ends(r) ==
    /\ Install(r.h)
    /\ caller' = r.kind
    /\ last' = [op |-> pending.op, arg |-> pending.arg,
                pre |-> IF pending.pre # None THEN pending.pre
                        ELSE Flags(Cur),
                kind |-> r.kind, exc |-> r.exc, val |-> r.val,
                env |-> r.env]
    /\ pending' = NoPending
    /\ UNCHANGED <<delivered, gotten>>

\* The call under way runs from the state the handle is in now and ends in
\* one of the outcomes the operation's code allows.  A call under way is in
\* one of its phases, each a blocking call of the code: the two accepts of
\* start, the priming read of start, the priming read of connect, and the
\* waits of the operation itself.
End(op, arg, outcomes) ==
    /\ caller \in {"accepting", "accepting shell", "starting", "connecting",
                  "calling"}
    /\ pending.op = op
    /\ pending.arg = arg
    /\ \E r \in outcomes : Ends(r)

\* A call that makes no blocking call: it is made and ends in one step.
AtOnce(op, arg, outcomes) ==
    /\ caller = "ready"
    /\ \E r \in outcomes :
          /\ Install(r.h)
          /\ caller' = r.kind
          /\ last' = [op |-> op, arg |-> arg, pre |-> Flags(Cur),
                      kind |-> r.kind, exc |-> r.exc, val |-> r.val,
                      env |-> r.env]
    /\ UNCHANGED <<pending, delivered, gotten>>

\* A call of an operation that blocks when blocks holds, and then is made
\* in one step and ends in a later one.
Call(op, arg, blocks, outcomes) ==
    \/ ~blocks /\ AtOnce(op, arg, outcomes)
    \/ blocks /\ Begin(op, arg, "calling")
    \/ End(op, arg, outcomes)

\* A call that finds the handle not booted runs start first, whose code up
\* to its accepts is done at once: the listeners are made and the
\* subprocess is spawned.
BeginStarting(op, arg) ==
    /\ caller = "ready"
    /\ ~booted
    /\ boots < MaxBoots
    /\ Install(spawn(Cur))
    /\ caller' = "accepting"
    /\ pending' = [op |-> op, arg |-> arg, pre |-> Flags(Cur)]
    /\ UNCHANGED <<last, delivered, gotten>>

\* The call under way goes on to its next phase with the handle h.
GoesOn(h, phase) ==
    /\ Install(h)
    /\ caller' = phase
    /\ pending' = [pending EXCEPT !.pre = IF @ = None THEN Flags(Cur) ELSE @]
    /\ UNCHANGED <<last, delivered, gotten>>

\* The first accept of the start under way returns, and start goes on to
\* the second.
AcceptedMonitor ==
    /\ caller = "accepting"
    /\ GoesOn(accept_monitor(Cur), "accepting shell")

\* The second accept of the start under way returns: the reader thread is
\* started and start goes on to its priming read.
Accepted ==
    /\ caller = "accepting shell"
    /\ \E a \in accept_shell(Cur) :
          a.kind = "returned" /\ GoesOn(start_serial_reader(a.h), "starting")

\* The priming read of the start under way gets the prompt and start
\* returns to the connect that called it, which goes on to its own read.
Prompted ==
    /\ caller = "starting"
    /\ pending.op # "start"
    /\ \E s \in start_prompted(Cur) :
          s.kind = "returned" /\ GoesOn(s.h, "connecting")

\* The priming read of the connect under way returns and connect returns to
\* the operation that called it, which goes on connected.
Primed ==
    /\ caller = "connecting"
    /\ pending.op # "connect"
    /\ \E c \in connect_prime(Cur) :
          c.kind = "returned" /\ GoesOn(c.h, "calling")

\* The handle as the operation under way has it.  A start blocked in its
\* accepts or in its priming read, and a connect blocked in its priming
\* read, end there in the ways the field names: when the call under way is
\* of start or of connect itself, in every way its blocking call can end;
\* when it is of an operation that called them, in every way but a return
\* (on which the operation goes on: Accepted, Prompted, Primed).
Self ==
    LET ends(op, outcomes) ==
            IF pending.op = op THEN outcomes ELSE NotReturned(outcomes)
    IN  CASE caller = "accepting" ->
                Cur @@ [start_ends |->
                           {o \in accept(Cur) :
                              o.kind = "hung" /\ o.env.accepted = 0}]
          [] caller = "accepting shell" ->
                Cur @@ [start_ends |-> NotReturned(accept_shell(Cur))]
          [] caller = "starting" ->
                Cur @@ [start_ends |-> ends("start", start_prompted(Cur))]
          [] caller = "connecting" ->
                Cur @@ [connect_ends |-> ends("connect", connect_prime(Cur))]
          [] OTHER -> Cur

\* A call of an operation whose code begins with start (through connect,
\* but for start itself): a start on a booted handle and a connect on a
\* connected one return at once.
StartingCall(op, arg, outcomes) ==
    \/ /\ booted
       /\ IF op = "start" \/ (op = "connect" /\ connected)
          THEN AtOnce(op, arg, outcomes)
          ELSE Begin(op, arg, IF connected THEN "calling" ELSE "connecting")
    \/ BeginStarting(op, arg)
    \/ End(op, arg, outcomes)

Start == StartingCall("start", None, start(Self))

Connect == StartingCall("connect", None, connect(Self))

ShellInteract ==
    \E typed \in {"", "echo hi\n", "poweroff\n"} :
        StartingCall("shell_interact", typed, shell_interact(Self, typed))

Shutdown == Call("shutdown", None, booted, shutdown(Cur))

Crash == Call("crash", None, booted, crash(Cur))

\* release makes no blocking call.
Release == AtOnce("release", None, release(Cur))

SendMonitorCommand ==
    \E command \in {"quit", "info status"} :
        Call("send_monitor_command", command, monitor # None,
             send_monitor_command(Cur, command))

Execute ==
    \E command \in ShellCommands :
        StartingCall("execute", command, execute(Self, command))

WaitForUnit ==
    StartingCall("wait_for_unit", "u", wait_for_unit(Self))

\* retry called with a predicate of the test script's own.
Retry ==
    \E timeout \in 0 .. MaxTimeout :
        \E results \in [1 .. (timeout + 1) -> {"True", "False", "raise"}] :
            Call("retry", [timeout |-> timeout, results |-> results], TRUE,
                 retry(Scripted(results), Cur, timeout))

\* The command lists handed to succeed and fail.
CommandLists ==
    {<<"true">>, <<"echo a", "true">>, <<"printf hi; exit 7">>,
     <<"printf hi; exit 7", "echo a">>}

Succeed ==
    \E commands \in CommandLists :
        StartingCall("succeed", commands, succeed(Self, commands))

Fail ==
    \E commands \in CommandLists :
        StartingCall("fail", commands, fail(Self, commands))

WaitUntilSucceeds ==
    StartingCall("wait_until_succeeds", PollCommand,
                 wait_until_succeeds(Self, PollCommand))

WaitUntilFails ==
    StartingCall("wait_until_fails", PollCommand,
                 wait_until_fails(Self, PollCommand))

\* The character lists handed to send_chars: "A", "-" and the newline have
\* entries in the key table, "x" and "1" have none.
CharLists == {<<"A", "-", "\n">>, <<"x">>, <<"1", " ">>}

SendChars ==
    \E chars \in CharLists :
        Call("send_chars", chars, monitor # None /\ chars # <<>>,
             send_chars(Cur, chars))

\* The test script goes on after a call that returned or raised.
Continue ==
    /\ caller \in {"returned", "raised"}
    /\ caller' = "ready"
    /\ last' = NoCall
    /\ UNCHANGED <<booted, connected, pid, process, monitor, shell, guest,
                   monitorBuf, shellBuf, boots, pending, keep_vm_state,
                   state_dir, serial, delivered, gotten>>

\* The caller states in which the guest and the reader threads run on: all
\* but the instant at which a call has just ended.
Running ==
    {"ready", "waiting", "hung", "accepting", "accepting shell", "starting",
     "connecting", "calling"}

\* An emulator exits, on its own or because it was killed, between two
\* calls or while one is under way: the one the handle spawned last, or one
\* it spawned before and left running.  (What its exit does to a call that
\* hangs is part of that call's outcome.)
GuestDies ==
    /\ caller \in Running \ {"hung"}
    /\ \E n \in 1 .. boots :
          /\ IF n = boots THEN guest \in {"running", "killed"}
             ELSE serial[n].orphaned
          /\ guest' = IF n = boots THEN "dead" ELSE guest
          /\ serial' = IF n = boots THEN serial
                       ELSE [serial EXCEPT ![n].orphaned = FALSE]
    /\ UNCHANGED <<booted, connected, pid, process, monitor, shell,
                   monitorBuf, shellBuf, boots, caller, pending, last,
                   keep_vm_state, state_dir, delivered, gotten>>

\* The state after the handle h has been constructed.
Constructed(h) ==
    /\ booted = h.booted
    /\ connected = h.connected
    /\ pid = h.pid
    /\ process = h.process
    /\ monitor = h.monitor
    /\ shell = h.shell
    /\ guest = h.guest
    /\ monitorBuf = h.monitorBuf
    /\ shellBuf = h.shellBuf
    /\ boots = h.boots
    /\ keep_vm_state = h.keep_vm_state
    /\ state_dir = h.state_dir
    /\ serial = h.serial
    /\ delivered = <<>>
    /\ gotten = 0
    /\ caller = "ready"
    /\ pending = NoPending
    /\ last = NoCall

\* The handle made with the default keep_vm_state, no earlier state around.
Init == Constructed(Machine_init(FALSE, {}))

(***************************************************************************)
(* The serial console: the guest prints lines on its stdout, the reader    *)
(* thread started by start puts them into last_lines, and                  *)
(* wait_for_console_text takes them out.                                   *)
(***************************************************************************)
\* The i-th line a guest prints, as the bytes of the line with its end.
ConsoleLine(i) ==
    CASE i % 3 = 1 -> <<"alpha", "\r", "\n">>
      [] i % 3 = 2 -> <<"beta", "\n">>
      [] OTHER -> <<"gamma", "<VT>", " ", "\n">>

\* str.replace("\r", "")
remove_cr(text) == SelectSeq(text, LAMBDA c : c # "\r")

\* str.rstrip()
RECURSIVE rstrip(_)
rstrip(text) ==
    IF text # <<>> /\ IsSpace(text[Len(text)])
    THEN rstrip(SubSeq(text, 1, Len(text) - 1))
    ELSE text

\* _line.decode(errors="ignore").replace("\r", "").rstrip()
serial_line(raw) == rstrip(remove_cr(decode_ignore(raw)))

\* The lines the guests have printed so far, all together.
RECURSIVE LinesPrinted(_)
LinesPrinted(pipes) ==
    IF pipes = <<>> THEN 0
    ELSE Head(pipes).emitted + LinesPrinted(Tail(pipes))

\* A running guest prints its next line: the one spawned last, or one
\* spawned before and left running.  at keeps, for each line of the guest,
\* the number of the line among the lines of all the guests, in the order
\* they were printed.
GuestPrints ==
    /\ caller \in Running
    /\ LinesPrinted(serial) < MaxLines
    /\ \E n \in 1 .. boots :
          /\ IF n = boots THEN guest = "running" ELSE serial[n].orphaned
          /\ serial' = [serial EXCEPT
                           ![n].emitted = @ + 1,
                           ![n].at = Append(@, LinesPrinted(serial) + 1)]
    /\ UNCHANGED <<booted, connected, pid, process, monitor, shell, guest,
                   monitorBuf, shellBuf, boots, caller, pending, last,
                   keep_vm_state, state_dir, delivered, gotten>>

\* process_serial_output of subprocess n: the next line of its stdout is
\* read and put into last_lines.
ReaderPuts ==
    /\ caller \in Running
    /\ \E n \in 1 .. Len(serial) :
          /\ serial[n].reader = "reading"
          /\ serial[n].read < serial[n].emitted
          /\ serial' = [serial EXCEPT ![n].read = @ + 1]
          /\ delivered' =
                Append(delivered,
                       [of |-> n, line |-> serial[n].read + 1,
                        at |-> serial[n].at[serial[n].read + 1],
                        text |-> serial_line(ConsoleLine(serial[n].read + 1))])
    /\ UNCHANGED <<booted, connected, pid, process, monitor, shell, guest,
                   monitorBuf, shellBuf, boots, caller, pending, last,
                   keep_vm_state, state_dir, gotten>>

\* process_serial_output of subprocess n: the subprocess has exited (the
\* one spawned last when the guest is dead, one spawned before when it was
\* not left running or has exited since) and its stdout is read to the end;
\* the loop and the thread end.
ReaderEnds ==
    /\ caller \in Running
    /\ \E n \in 1 .. Len(serial) :
          /\ serial[n].reader = "reading"
          /\ serial[n].read = serial[n].emitted
          /\ IF n = boots THEN guest = "dead" ELSE ~serial[n].orphaned
          /\ serial' = [serial EXCEPT ![n].reader = "ended"]
    /\ UNCHANGED <<booted, connected, pid, process, monitor, shell, guest,
                   monitorBuf, shellBuf, boots, caller, pending, last,
                   keep_vm_state, state_dir, delivered, gotten>>

\* The regular expressions tried: each is a literal text, which re.search
\* finds wherever the text occurs.
ConsolePatterns ==
    {<<"beta">>, <<"beta", "\n", "gamma">>, <<"beta", "gamma">>}

\* re.search(regex, text) is not None
re_search(regex, text) == contains(text, regex)

\* console.write(line); console.seek(0); re.search(regex, console.read())
console_write_search(console, line, regex) ==
    [console |-> console \o line, matched |-> re_search(regex, console \o line)]

\* wait_for_console_text(regex) is called: the console buffer is empty.
WaitForConsoleText ==
    /\ caller = "ready"
    /\ \E regex \in ConsolePatterns :
          last' = [op |-> "wait_for_console_text", arg |-> regex,
                   pre |-> Flags(Cur), kind |-> "waiting", exc |-> None,
                   val |-> None, env |-> [console |-> <<>>, pulled |-> <<>>]]
    /\ caller' = "waiting"
    /\ UNCHANGED <<booted, connected, pid, process, monitor, shell, guest,
                   monitorBuf, shellBuf, boots, pending, keep_vm_state,
                   state_dir, serial, delivered, gotten>>

\* A faulty round: the line is read and left in last_lines.
ConsoleGetPeek ==
    /\ caller = "waiting"
    /\ gotten < Len(delivered)
    /\ LET line == delivered[gotten + 1].text
           r == console_write_search(last.env.console, line, last.arg)
           kind == IF r.matched THEN "returned" ELSE "waiting"
       IN  /\ last' = [last EXCEPT !.kind = kind,
                                   !.env = [console |-> r.console,
                                            pulled |-> Append(@.pulled, line)]]
           /\ caller' = kind
    /\ UNCHANGED <<booted, connected, pid, process, monitor, shell, guest,
                   monitorBuf, shellBuf, boots, pending, keep_vm_state,
                   state_dir, serial, delivered, gotten>>

\* One round of the loop of wait_for_console_text: last_lines.get() (it
\* blocks while the queue is empty), write, search, return on a match.
ConsoleGet ==
    /\ caller = "waiting"
    /\ gotten < Len(delivered)
    /\ LET line == delivered[gotten + 1].text
           r == console_write_search(last.env.console, line, last.arg)
           kind == IF r.matched THEN "returned" ELSE "waiting"
       IN  /\ last' = [last EXCEPT !.kind = kind,
                                   !.env = [console |-> r.console,
                                            pulled |-> Append(@.pulled, line)]]
           /\ caller' = kind
    /\ gotten' = gotten + 1
    /\ UNCHANGED <<booted, connected, pid, process, monitor, shell, guest,
                   monitorBuf, shellBuf, boots, pending, keep_vm_state,
                   state_dir, serial, delivered>>

Next ==
    \/ Start
    \/ AcceptedMonitor
    \/ Accepted
    \/ Prompted
    \/ Primed
    \/ Connect
    \/ ShellInteract
    \/ Shutdown
    \/ Crash
    \/ Release
    \/ SendMonitorCommand
    \/ Execute
    \/ WaitForUnit
    \/ Continue
    \/ GuestDies

\* The calls on the monitor and the shell, the serial console left aside:
\* no step of it touches what these calls read or write.
Spec == Init /\ [][Next]_vars

\* The life cycle of the handle together with retry called with a predicate
\* of the test script's own.
RetryNext ==
    \/ Start
    \/ AcceptedMonitor
    \/ Accepted
    \/ Crash
    \/ Retry
    \/ Continue
    \/ GuestDies

RetrySpec == Init /\ [][RetryNext]_vars

\* The life cycle of the handle together with the calls that run commands
\* in the guest and look at their status.
CommandsNext ==
    \/ Start
    \/ AcceptedMonitor
    \/ Accepted
    \/ Prompted
    \/ Primed
    \/ Connect
    \/ Shutdown
    \/ Crash
    \/ Execute
    \/ Succeed
    \/ Fail
    \/ WaitUntilSucceeds
    \/ WaitUntilFails
    \/ Continue
    \/ GuestDies

CommandsSpec == Init /\ [][CommandsNext]_vars

\* The life cycle of the handle together with the serial console.
ConsoleNext ==
    \/ Start
    \/ AcceptedMonitor
    \/ Accepted
    \/ Shutdown
    \/ Crash
    \/ Release
    \/ Continue
    \/ GuestDies
    \/ GuestPrints
    \/ ReaderPuts
    \/ ReaderEnds
    \/ WaitForConsoleText
    \/ ConsoleGet

ConsoleSpec == Init /\ [][ConsoleNext]_vars

\* The life cycle of the handle together with the keys sent to the guest.
KeysNext ==
    \/ Start
    \/ AcceptedMonitor
    \/ Accepted
    \/ Crash
    \/ SendChars
    \/ Continue
    \/ GuestDies

KeysSpec == Init /\ [][KeysNext]_vars

\* The life cycle of a handle constructed with either keep_vm_state, over a
\* state directory as an earlier run may have left it.
StateDirInit ==
    \E keep \in BOOLEAN, found \in EarlierStateDirs :
        Constructed(Machine_init(keep, found))

StateDirNext ==
    \/ Start
    \/ AcceptedMonitor
    \/ Accepted
    \/ Shutdown
    \/ Crash
    \/ Release
    \/ Continue
    \/ GuestDies

StateDirSpec == StateDirInit /\ [][StateDirNext]_vars

(***************************************************************************)
(* Properties.  Each is stated over the call the test script has just      *)
(* made (last: the operation, its argument, the handle's fields before the *)
(* call, how the call ended, what the guest did) and the handle's fields   *)
(* after it.                                                               *)
(***************************************************************************)

\* C1: start, shutdown and crash follow the state table.  A start that
\* returns leaves the handle booted, and a start on a booted handle returns
\* without changing anything; shutdown and crash on a handle that is not
\* booted return without changing anything; shutdown and crash on a booted
\* handle, when they return, leave booted and connected false and pid None;
\* while the guest is running crash raises only when the emulator exits
\* with the command unread or writes bytes that are not UTF-8, and shutdown
\* raises only on a shell socket that shell_interact has closed, which it is
\* in no sequence of start, shutdown and crash alone.
StateTable ==
    /\ (last.op = "start" /\ last.kind = "returned") => booted
    /\ (last.op = "start" /\ last.pre.booted) =>
          (last.kind = "returned" /\ Flags(Cur) = last.pre)
    /\ (last.op \in {"shutdown", "crash"} /\ ~last.pre.booted) =>
          (last.kind = "returned" /\ Flags(Cur) = last.pre)
    /\ (last.op \in {"shutdown", "crash"} /\ last.pre.booted
        /\ last.kind = "returned") =>
          (~booted /\ ~connected /\ pid = None)
    /\ (last.op = "crash" /\ last.pre.guest = "running"
        /\ last.kind = "raised") =>
          last.exc \in {Exc("ConnectionResetError"), Exc("UnicodeDecodeError")}
    /\ (last.op = "shutdown" /\ last.pre.guest = "running"
        /\ last.kind = "raised") =>
          (Closed(last.pre.shell) /\ last.exc = Exc("OSError"))
    /\ (last.op # "shell_interact" /\ last.pre # None
        /\ ~Closed(last.pre.shell)) =>
          ~Closed(shell)

\* A handle that was shut by a crash from the connected state is started
\* again, and a second guest is booted.
StartedAgainAfterShut ==
    /\ last.op = "start"
    /\ last.kind = "returned"
    /\ ~last.pre.booted
    /\ last.pre.boots = 1
    /\ booted
    /\ boots = 2

\* C2, as the claim states it: release on a booted handle leads to shut
\* (booted and connected false, is_up() false, and a start that follows
\* boots a new guest); release on a handle that is not booted changes
\* nothing.
ReleaseLeadsToShut ==
    last.op = "release" =>
        /\ last.kind = "returned"
        /\ last.pre.booted =>
              /\ ~booted
              /\ ~connected
              /\ ~is_up(Cur)
              /\ \A o \in start(Cur) :
                    o.kind = "returned" =>
                        (o.h.booted /\ o.h.boots = boots + 1)
        /\ ~last.pre.booted => Flags(Cur) = last.pre

\* C2, amended: release always returns and changes no field of the handle;
\* with a pid held the subprocess is killed, without one nothing happens at
\* all; after a release on a booted handle the handle is still booted, and
\* a start that follows returns without booting anything.
ReleaseOnlyKills ==
    last.op = "release" =>
        /\ last.kind = "returned"
        /\ [Flags(Cur) EXCEPT !.guest = last.pre.guest] = last.pre
        /\ guest = (IF last.pre.pid # None /\ last.pre.guest = "running"
                    THEN "killed"
                    ELSE last.pre.guest)
        /\ is_up(Cur) = (last.pre.booted /\ last.pre.connected)
        /\ last.pre.booted => start(Cur) = {Returned(Cur, None, NoEnv)}

\* release has killed the running guest of a connected handle, and is_up()
\* still answers true.
ReleasedWhileConnected ==
    /\ last.op = "release"
    /\ last.pre.connected
    /\ last.pre.guest = "running"
    /\ guest = "killed"
    /\ is_up(Cur)

\* C3: whenever booted is true, process, monitor and shell are not None.
BootedHasProcessAndStreams ==
    booted => (process # None /\ monitor # None /\ shell # None)

\* A command has been executed on the second guest of the handle.
ExecutedOnSecondBoot ==
    /\ booted
    /\ boots = 2
    /\ last.op = "execute"
    /\ last.kind = "returned"
    /\ shell = [socket |-> "shell", of |-> 2, closed |-> FALSE]

\* C4: whenever connected is true, booted is true.
ConnectedImpliesBooted == connected => booted

\* connect has booted and connected a handle that was not booted.
ConnectBootedTheHandle ==
    /\ last.op = "connect"
    /\ last.kind = "returned"
    /\ ~last.pre.booted
    /\ connected
    /\ booted

\* C5, as the claim states it: when execute returns, the pair it returns is
\* the exit status the guest printed after the sentinel and the text the
\* command wrote before the sentinel frame.
ExecuteReturnsStatusAndOutput ==
    (last.op = "execute" /\ last.kind = "returned") =>
        last.val = <<last.env.ran.status, Str(decode_ignore(last.env.ran.out))>>

\* C6, as the claim states it: the reply a monitor dialogue returns (the
\* priming read of start, send_monitor_command, the "quit" of crash) ends
\* with the prompt marker.
MonitorReplyEndsWithPrompt ==
    (/\ last.op \in {"start", "send_monitor_command", "crash"}
     /\ last.kind = "returned"
     /\ "answer" \in DOMAIN last.env) =>
        EndsWith(last.env.answer, Prompt)

\* C6, amended: the reply a monitor dialogue returns ends with the prompt
\* marker unless the monitor peer closed the stream before a prompt ended
\* what was received; the reply is then all that was received until the
\* close (nothing is left unread), and it does not end with the marker.
\* send_monitor_command returns that reply.
MonitorReplyEndsWithPromptOrStreamClosed ==
    (/\ last.op \in {"start", "send_monitor_command", "crash"}
     /\ last.kind = "returned"
     /\ "answer" \in DOMAIN last.env) =>
        /\ EndsWith(last.env.answer, Prompt) = ~last.env.closed
        /\ last.env.closed => (monitorBuf = <<>> /\ guest = "dead")
        /\ last.op = "send_monitor_command" => last.val = last.env.answer

\* The monitor wrote some text and closed the stream without a prompt, and
\* send_monitor_command returned that text.
MonitorClosedBeforePrompt ==
    /\ last.op = "send_monitor_command"
    /\ last.kind = "returned"
    /\ last.env.closed
    /\ last.val = Word
    /\ ~EndsWith(last.val, Prompt)

\* C7: retry calls the predicate at least once and at most timeout + 1
\* times, the calls are the scripted ones in order, every call but the last
\* is made with is_last_attempt false, and the last call is made with
\* is_last_attempt true exactly when the timeout ordinary attempts all
\* returned false.
RetryCallsAndLastAttempt ==
    last.op = "retry" =>
        LET t == last.arg.timeout
            results == last.arg.results
            calls == last.env.calls
            n == Len(calls)
        IN  /\ last.env.timeout = t
            /\ 1 <= n
            /\ n <= t + 1
            /\ \A j \in 1 .. n :
                  IF results[j] = "raise"
                  THEN calls[j].kind = "raised"
                  ELSE /\ calls[j].kind = "returned"
                       /\ calls[j].val = (results[j] = "True")
            /\ \A j \in 1 .. (n - 1) : ~calls[j].is_last_attempt
            /\ calls[n].is_last_attempt
                  <=> (\A j \in 1 .. t : results[j] = "False")

\* retry with a budget of two made its third call as the last attempt, and
\* that call returned true.
RetrySucceededOnLastAttempt ==
    /\ last.op = "retry"
    /\ last.arg.timeout = 2
    /\ last.kind = "returned"
    /\ Len(last.env.calls) = 3
    /\ last.env.calls[3].is_last_attempt
    /\ last.env.calls[3].val = TRUE

\* C8: retry returns exactly when some call of the predicate returned true,
\* a call that returned true is the last call made, and when the ordinary
\* attempts and the final attempt all return false retry raises the timeout
\* error that carries the timeout (and raises it in no other case).
RetryReturnsOrTimesOut ==
    last.op = "retry" =>
        LET t == last.arg.timeout
            results == last.arg.results
            calls == last.env.calls
            n == Len(calls)
            TimedOut == [exception |-> "action timed out", seconds |-> t]
        IN  /\ last.kind = "returned"
                  <=> (\E j \in 1 .. n :
                          calls[j].kind = "returned" /\ calls[j].val = TRUE)
            /\ \A j \in 1 .. n :
                  (calls[j].kind = "returned" /\ calls[j].val = TRUE) => j = n
            /\ (\A j \in 1 .. (t + 1) : results[j] = "False")
                  <=> (last.kind = "raised" /\ last.exc = TimedOut)

\* retry with a budget of two has raised the timeout error after three
\* calls that returned false.
RetryTimedOut ==
    /\ last.op = "retry"
    /\ last.arg.timeout = 2
    /\ Len(last.env.calls) = 3
    /\ last.kind = "raised"
    /\ last.exc = [exception |-> "action timed out", seconds |-> 2]

\* What a poll of wait_for_unit read: the guest printed the unit in the
\* given state for the poll's first (or second) "systemctl show", with exit
\* status 0, and execute returned it.
PollRead(reading, state) ==
    /\ "ran" \in DOMAIN reading
    /\ reading.ran = [out |-> UnitShow(state), status |-> 0]
    /\ reading.output = UnitShow(state)

\* The guest answered the poll's list-jobs query with "No jobs running."
PollSawNoJobs(reading) ==
    /\ "ran" \in DOMAIN reading
    /\ contains(reading.ran.out, <<"No jobs">>)

\* C9, as the claim states it: a wait_for_unit that ends returns exactly
\* when one of its polls read the state active, and a poll that read the
\* state failed is the last poll and makes wait_for_unit raise the error of
\* a failed unit.
WaitForUnitReturnsWhenActive ==
    (last.op = "wait_for_unit" /\ last.kind # "hung") =>
        LET calls == last.env.calls
        IN  /\ last.kind = "returned"
                  <=> (\E j \in 1 .. Len(calls) :
                          PollRead(calls[j].env.first, "active"))
            /\ \A j \in 1 .. Len(calls) :
                  PollRead(calls[j].env.first, "failed") =>
                      /\ j = Len(calls)
                      /\ last.kind = "raised"
                      /\ last.exc = Exc("unit reached state failed")

\* C10, as the claim states it: a poll of wait_for_unit whose first reading
\* is inactive raises exactly when the list-jobs output contains "No jobs"
\* and the second reading is inactive too; otherwise it returns false and
\* polling goes on.
InactivePollRaisesOnlyWithoutJobs ==
    last.op = "wait_for_unit" =>
        \A j \in 1 .. Len(last.env.calls) :
            LET poll == last.env.calls[j]
            IN  (PollRead(poll.env.first, "inactive") /\ poll.kind # "hung") =>
                    /\ poll.kind = "raised"
                          <=> (/\ PollSawNoJobs(poll.env.jobs)
                               /\ PollRead(poll.env.second, "inactive"))
                    /\ poll.kind = "returned" => poll.val = FALSE

\* C11: connect is idempotent and drives start.  A connect that returns
\* leaves the handle booted and connected; on a handle that was not
\* connected it made exactly one read on the shell stream, of at most 1024
\* bytes, and what that read did not take is still on the stream; on a
\* connected handle it read nothing and changed nothing.  execute writes its
\* command frame only on a connected handle, and leaves it connected.
ConnectPrimesOnce ==
    /\ (last.op = "connect" /\ last.kind = "returned") =>
          /\ booted
          /\ connected
          /\ IF last.pre.connected
             THEN last.env = NoEnv /\ Flags(Cur) = last.pre
             ELSE /\ "primed" \in DOMAIN last.env
                  /\ last.env.primed <= ConnectRecvSize
                  /\ (last.env.had # <<>>) => last.env.primed >= 1
                  /\ last.pre.booted => last.env.had = last.pre.shellBuf
                  /\ shellBuf = SubSeq(last.env.had, last.env.primed + 1,
                                       Len(last.env.had))
    /\ (last.op = "connect" /\ last.pre.connected) => last.kind = "returned"
    /\ (last.op = "execute" /\ "ran" \in DOMAIN last.env) =>
          (last.env.connected /\ connected /\ booted)

\* connect on a booted handle whose shell wrote a banner of two bytes took
\* one of them in its one read and left the other.
ConnectReadPartOfBanner ==
    /\ last.op = "connect"
    /\ last.kind = "returned"
    /\ last.pre.booted
    /\ ~last.pre.connected
    /\ last.env.primed = 1
    /\ Len(last.env.had) = 2
    /\ Len(shellBuf) = 1
    /\ connected

\* C12, as the claim states it: in every state with booted true, exactly
\* one reader is alive and consuming the stdout of the current subprocess.
OneReaderAliveWhileBooted ==
    booted =>
        Cardinality({n \in 1 .. Len(serial) :
                        n = boots /\ serial[n].reader = "reading"}) = 1

\* C12, amended: in every state with booted true, start has started one
\* reader for each subprocess it spawned, so exactly one reader was given
\* the stdout of the current subprocess; that reader is alive while the
\* guest is running, and it ends only once the guest is gone and its stdout
\* is read to the end.
OneReaderPerSubprocess ==
    /\ booted =>
          /\ Len(serial) = boots
          /\ guest = "running" => serial[boots].reader = "reading"
    /\ \A n \in 1 .. Len(serial) :
          serial[n].reader = "ended" =>
              /\ serial[n].read = serial[n].emitted
              /\ IF n = boots THEN guest = "dead" ELSE ~serial[n].orphaned

\* The handle is booted on its second subprocess, which has exited; its
\* reader has read the stdout to the end and is gone, while the reader of
\* the first subprocess is still alive.
ReaderGoneWhileBooted ==
    /\ booted
    /\ boots = 2
    /\ guest = "dead"
    /\ Len(serial) = 2
    /\ serial[2].reader = "ended"
    /\ serial[1].reader = "reading"

\* C13: the lines are put into last_lines in the order the guests emitted
\* them: of two lines in last_lines, the one put first was emitted first.
LinesDeliveredInEmissionOrder ==
    \A a, b \in 1 .. Len(delivered) :
        a < b => delivered[a].at < delivered[b].at

\* Lines buffered as successive lines: each line followed by a newline.
RECURSIVE BufferedAsLines(_)
BufferedAsLines(lines) ==
    IF lines = <<>> THEN <<>>
    ELSE Head(lines) \o <<"\n">> \o BufferedAsLines(Tail(lines))

\* C14: wait_for_console_text(regex) returns once the lines it has pulled
\* from last_lines, buffered as successive lines, contain a match for regex:
\* it is not still waiting after a round of its loop when they do.  With the
\* lines alpha, beta, gamma pulled, the regex "beta\ngamma" has a match.
ConsoleTextFoundAcrossLines ==
    (last.op = "wait_for_console_text" /\ last.kind = "waiting") =>
        ~re_search(last.arg, BufferedAsLines(last.env.pulled))

\* The outputs execute read in the executions runs, one after the other.
RECURSIVE OutputsOf(_)
OutputsOf(runs) ==
    IF runs = <<>> THEN <<>>
    ELSE Head(runs).env.output \o OutputsOf(Tail(runs))

\* Every execution returned to succeed or fail: none raised or hung.
AllReturned(runs) == \A i \in 1 .. Len(runs) : runs[i].kind = "returned"

\* want is TRUE for succeed (statuses must be zero) and FALSE for fail
\* (statuses must be non-zero): the commands were executed in order up to
\* the first with the wrong status; with none, the call returned the
\* outputs in order; else it raised the error of succeed or of fail for
\* that command.
InOrderUntilWrongStatus(want) ==
    LET runs == last.env.runs
        n == Len(runs)
        right(i) == (runs[i].val[1] = 0) = want
    IN  /\ n >= 1 /\ n <= Len(last.arg)
        /\ \A i \in 1 .. n : runs[i].command = last.arg[i]
        /\ \A i \in 1 .. (n - 1) : right(i)
        /\ IF right(n)
           THEN /\ n = Len(last.arg)
                /\ last.kind = "returned"
                /\ last.val = Str(OutputsOf(runs))
           ELSE /\ last.kind = "raised"
                /\ last.exc = IF want
                              THEN CommandFailed(last.arg[n], runs[n].val[1])
                              ELSE UnexpectedlySucceeded(last.arg[n])

\* C15: succeed(c1, ..., cn) executes the commands in order; when every
\* status is zero it returns the outputs one after the other, and at the
\* first non-zero status it raises the command-failed error for that
\* command, with no later command executed.
SucceedReturnsOutputs ==
    (last.op = "succeed" /\ last.kind \in {"returned", "raised"}
     /\ AllReturned(last.env.runs)) =>
        InOrderUntilWrongStatus(TRUE)

\* C16: fail(c1, ..., cn) executes the commands in order; when every status
\* is non-zero it returns the outputs one after the other, and at the first
\* status zero it raises the unexpectedly-succeeded error for that command,
\* with no later command executed.
FailReturnsOutputs ==
    (last.op = "fail" /\ last.kind \in {"returned", "raised"}
     /\ AllReturned(last.env.runs)) =>
        InOrderUntilWrongStatus(FALSE)

\* The execution of the polled command in the i-th call kept had the status
\* the poll waits for: zero for wait_until_succeeds, non-zero for
\* wait_until_fails.
PollAwaited(i) ==
    (last.env.calls[i].env.status = 0) = (last.op = "wait_until_succeeds")

\* C17: wait_until_succeeds (wait_until_fails), when it returns, returns
\* the output of the last execution of the command, which is the first with
\* status zero (non-zero): every call of the check before the last returned
\* False, which it does on the other status.
WaitUntilReturnsLastOutput ==
    (last.op \in {"wait_until_succeeds", "wait_until_fails"}
     /\ last.kind = "returned") =>
        /\ Len(last.env.calls) >= 1
        /\ \A i \in 1 .. (Len(last.env.calls) - 1) :
               /\ last.env.calls[i].kind = "returned"
               /\ ~last.env.calls[i].val
        /\ PollAwaited(Len(last.env.calls))
        /\ last.val = Str(last.env.calls[Len(last.env.calls)].env.read)

\* The monitor command the claim names for a character: "sendkey " and the
\* character's entry in the key table, or the character itself when it has
\* no entry.
SendkeyFor(char) ==
    IF char \in DOMAIN CHAR_TO_KEY
    THEN "sendkey " \o CHAR_TO_KEY[char]
    ELSE "sendkey " \o char

\* The j-th monitor command of the call went out: the send did not raise.
KeyIssued(j) == last.env.sent[j].kind # "raised"

\* C18: send_chars(chars) issues one monitor command per character, in the
\* order of the characters, each "sendkey" with the character's key token;
\* a command goes out only after the call of the one before it returned
\* with a reply that ends with the prompt; a call that returns has issued
\* a command for every character, and a call that does not return ends as
\* its last command ended.  For "A", "-", newline the commands are sendkey
\* shift-a, sendkey 0x0C, sendkey ret.
SendCharsSendsKeysInOrder ==
    last.op = "send_chars" =>
        /\ Len(last.env.sent) <= Len(last.arg)
        /\ \A j \in 1 .. Len(last.env.sent) :
              /\ last.env.sent[j].command = SendkeyFor(last.arg[j])
              /\ (j > 1 /\ KeyIssued(j)) =>
                    /\ last.env.sent[j - 1].kind = "returned"
                    /\ EndsWith(last.env.sent[j - 1].reply, Prompt)
              /\ j < Len(last.env.sent) => last.env.sent[j].kind = "returned"
        /\ IF last.kind = "returned"
           THEN /\ Len(last.env.sent) = Len(last.arg)
                /\ \A j \in 1 .. Len(last.arg) : KeyIssued(j)
           ELSE last.env.sent[Len(last.env.sent)].kind = last.kind
        /\ (last.arg = <<"A", "-", "\n">> /\ last.kind = "returned") =>
              [j \in 1 .. 3 |-> last.env.sent[j].command]
                  = <<"sendkey shift-a", "sendkey 0x0C", "sendkey ret">>

\* send_chars(["A", "-", newline]) has returned after three commands, the
\* second of which got a reply that was already waiting in the stream.
ThreeKeysSent ==
    /\ last.op = "send_chars"
    /\ last.kind = "returned"
    /\ last.arg = <<"A", "-", "\n">>
    /\ Len(last.env.sent) = 3
    /\ last.env.sent[1].command = "sendkey shift-a"
    /\ last.env.sent[2].command = "sendkey 0x0C"
    /\ last.env.sent[3].command = "sendkey ret"
    /\ last.env.sent[2].env.fed.bytes = <<>>

\* Bytes waiting unread in the shell stream are the rest of a reply: every
\* reply ends with a newline and the banner holds none.
UnreadReply(buf) == buf # <<>> /\ buf[Len(buf)] = "\n"

\* C19: a new frame is written to the shell stream only once the reply to
\* the frame before it is fully read, so that at most one shell command is
\* in flight: when execute on a connected handle writes its frame, no
\* bytes of an earlier reply wait unread in the stream.
FrameOnlyAfterReplyRead ==
    (last.op = "execute" /\ last.pre.connected /\ "ran" \in DOMAIN last.env)
        => ~UnreadReply(last.pre.shellBuf)

\* The call just made is a start that spawned a guest.
StartSpawned ==
    last.op = "start" /\ ~last.pre.booted /\ boots = last.pre.boots + 1

\* C20, as the claim states it: with keep_vm_state false, a start that
\* boots a guest runs it on a fresh state_dir, nothing in it left by an
\* earlier run; with keep_vm_state true the contents are preserved.
StartRunsOnFreshStateDir ==
    StartSpawned =>
        IF keep_vm_state
        THEN \A e \in last.pre.state_dir :
                e.name \notin SocketNames => e \in state_dir
        ELSE \A e \in state_dir : e.made_by = boots

\* C20, amended: the contents of state_dir are deleted when the handle is
\* constructed with keep_vm_state false and at no other time.  A start that
\* boots a guest makes the two socket inodes anew and keeps every other
\* entry, whatever keep_vm_state is; so with keep_vm_state false the first
\* guest of the handle runs on a fresh state_dir and every later one on
\* what the guests before it left.
StateDirDeletedAtConstructionOnly ==
    /\ (boots = 0 /\ ~keep_vm_state) => state_dir = {}
    /\ (boots = 0 /\ keep_vm_state) => state_dir \in EarlierStateDirs
    /\ StartSpawned =>
          /\ \A e \in last.pre.state_dir :
                e.name \notin SocketNames => e \in state_dir
          /\ \A e \in state_dir :
                e.name \in SocketNames => e.made_by = boots
          /\ \A name \in SocketNames : SocketInode(name, boots) \in state_dir
    /\ (StartSpawned /\ ~keep_vm_state /\ boots = 1) =>
          \A e \in state_dir : e.made_by = 1

\* A handle with keep_vm_state false has booted its second guest, which
\* runs on the disk image the first guest made.
RestartedOnOldStateDir ==
    /\ StartSpawned
    /\ last.kind = "returned"
    /\ ~keep_vm_state
    /\ boots = 2
    /\ GuestFile(1) \in state_dir

\* C21: after shutdown or crash has returned on a booted handle the
\* subprocess is reaped (the guest is gone) and the handle's resources are
\* reset: process, monitor and shell are None.
ShutResetsProcessAndStreams ==
    (last.op \in {"shutdown", "crash"} /\ last.pre.booted
     /\ last.kind = "returned") =>
        /\ guest = "dead"
        /\ process = None
        /\ monitor = None
        /\ shell = None

\* C22, as the claim states it: when the monitor stream closes before the
\* prompt marker has been received, send_monitor_command raises an error
\* to its caller and returns no reply.
MonitorCloseRaises ==
    (/\ last.op = "send_monitor_command"
     /\ "closed" \in DOMAIN last.env
     /\ last.env.closed) =>
        last.kind = "raised"

\* C22, amended: when the monitor stream closes before the prompt marker
\* has been received, send_monitor_command raises nothing: it returns, as
\* the reply, the text received until the close.
MonitorCloseReturnsTextReceived ==
    (/\ last.op = "send_monitor_command"
     /\ "closed" \in DOMAIN last.env
     /\ last.env.closed) =>
        /\ last.kind = "returned"
        /\ last.exc = None
        /\ last.val = last.env.answer
        /\ ~EndsWith(last.val, Prompt)

\* The monitor closed the stream having written nothing in reply to
\* "info status", and the call returned the empty reply.
MonitorClosedWithEmptyReply ==
    /\ last.op = "send_monitor_command"
    /\ last.arg = "info status"
    /\ last.kind = "returned"
    /\ "closed" \in DOMAIN last.env
    /\ last.env.closed
    /\ last.val = <<>>

\* C23: start sets booted only after its priming read has received the
\* prompt marker from the monitor: when a start that booted the handle has
\* returned, the text it read from the monitor ends with "(qemu) " and the
\* monitor had not closed its stream.
BootedOnlyAfterPromptReceived ==
    (/\ last.op = "start"
     /\ last.kind = "returned"
     /\ ~last.pre.booted
     /\ booted) =>
        /\ EndsWith(last.env.answer, Prompt)
        /\ ~last.env.closed

\* C24: execute terminates: once the command ran and the guest shell wrote
\* the complete sentinel frame after its output, execute does not stay in
\* its recv loop, however the reply is cut into recv chunks.
ExecuteTerminatesOnceFrameEmitted ==
    (last.op = "execute" /\ "ran" \in DOMAIN last.env) =>
        last.kind # "hung"

\* C25: the reply send_monitor_command returns is what the monitor wrote in
\* response to this command, all of it and nothing written in response to
\* an earlier one: when the call has returned no byte is left unread on the
\* monitor stream, however the monitor's output is cut into recv results.
MonitorReplyIsWholeResponse ==
    (/\ last.op = "send_monitor_command"
     /\ last.kind = "returned"
     /\ "fed" \in DOMAIN last.env) =>
        /\ last.val = last.env.fed.bytes
        /\ monitorBuf = <<>>

\* The lines the call of wait_for_console_text in progress has taken.
LinesTaken(call) ==
    IF call.op = "wait_for_console_text" THEN call.env.pulled ELSE <<>>

\* C26: every line the serial readers put into last_lines is taken out at
\* most once, by one wait_for_console_text call, oldest first: a step that
\* hands a line to a call hands it the oldest line not yet taken and takes
\* it out of the queue, no step puts a taken line back, and no step, start,
\* shutdown and crash included, removes or reorders what is in the queue, so
\* that a later call begins with the oldest line not yet taken.
LinesTakenOnceInOrder ==
    [][/\ Len(delivered) <= Len(delivered')
       /\ SubSeq(delivered', 1, Len(delivered)) = delivered
       /\ gotten' \in {gotten, gotten + 1}
       /\ gotten' = gotten + 1 =>
             /\ caller = "waiting"
             /\ LinesTaken(last') =
                    Append(LinesTaken(last), delivered[gotten + 1].text)
       /\ LinesTaken(last') # LinesTaken(last) =>
             \/ gotten' = gotten + 1
             \/ LinesTaken(last') = <<>>
       /\ (caller = "ready" /\ caller' = "waiting") =>
             LinesTaken(last') = <<>>
       /\ (last' # last /\ last'.op \in {"start", "shutdown", "crash"}) =>
             (delivered' = delivered /\ gotten' = gotten)
      ]_vars

\* A line the reader of the first subprocess put was still in last_lines
\* after the crash (or shutdown) and the start of a second subprocess, and
\* a wait_for_console_text call made then took it as its first line, the
\* two lines before it having been taken by an earlier call.
LineTakenAfterRestart ==
    /\ last.op = "wait_for_console_text"
    /\ boots = 2
    /\ booted
    /\ gotten = 3
    /\ \A i \in 1 .. 3 : delivered[i].of = 1
    /\ last.env.pulled = <<delivered[3].text>>

====
